---- MODULE Spec2Model ----
(***************************************************************************)
(* sidekick: the hook handler (src/src/handler.rs) and the multi-instance  *)
(* coordination layer (src/src/action) it drives.                          *)
(*                                                                         *)
(* One behaviour is one top-level invocation `sidekick hook`: the hook is  *)
(* read, the sockets are discovered, the event is dispatched, the fan-outs *)
(* visit the sockets one step (one connect, one call) at a time, and the   *)
(* decision payload is written.                                            *)
(***************************************************************************)
EXTENDS Integers, Sequences, FiniteSets, TLC

\* Number of running editor instances (both kinds together).
MaxInst == 3

(***************************************************************************)
(* Data                                                                    *)
(***************************************************************************)

\* Option<T>: None is the empty sequence, Some(x) the one-element sequence.
None == <<>>
Some(x) == <<x>>

Kinds == {"neovim", "vscode"}

\* The order EditorActions' methods consult the two backends in.
KindOrder == <<"neovim", "vscode">>

FileTools == {"Edit", "Write", "MultiEdit"}

OtherTools == {"Read", "Bash"}

\* The parsed hook: Hook::Tool(h) with h.hook_event_name and h.tool, or
\* Hook::UserPrompt (tool "none").
Hooks ==
    [hook_event_name : {"PreToolUse", "PostToolUse"}, tool : FileTools \cup OtherTools]
        \cup {[hook_event_name |-> "UserPromptSubmit", tool |-> "none"]}

\* BufferStatus { is_current, has_unsaved_changes }
BufferStatus == [is_current : BOOLEAN, has_unsaved_changes : BOOLEAN]

NoStatus == [is_current |-> FALSE, has_unsaved_changes |-> FALSE]

\* EditorContext { file_path, start_line, end_line, content }: the visual
\* selections an instance can return.
SelA == [file_path |-> "/w/a.rs", start_line |-> 1, end_line |-> 1, content |-> "fn a()"]

SelB == [file_path |-> "/w/b.rs", start_line |-> 2, end_line |-> 3, content |-> "x\ny"]

Selections == {SelA, SelB}

\* The outcome of one remote call on a connected client: an error, or the
\* value of the operation (a BufferStatus, a unit, an Option<EditorContext>).
ErrResult ==
    [ok |-> FALSE, is_current |-> FALSE, has_unsaved_changes |-> FALSE, sel |-> None]

StatusResult(c, u) ==
    [ok |-> TRUE, is_current |-> c, has_unsaved_changes |-> u, sel |-> None]

UnitResult == StatusResult(FALSE, FALSE)

SelResult(s) ==
    [ok |-> TRUE, is_current |-> FALSE, has_unsaved_changes |-> FALSE, sel |-> s]

StatusAnswers == {ErrResult} \cup {StatusResult(c, u) : c, u \in BOOLEAN}

CommandAnswers == {ErrResult, UnitResult}

SelectionAnswers == {ErrResult, SelResult(None)} \cup {SelResult(Some(s)) : s \in Selections}

\* One instance as the invocation finds it: whether its socket accepts a
\* connection, and what it answers to a status query for the hook's file.
Down == [conn |-> FALSE, status |-> ErrResult]

Up(s) == [conn |-> TRUE, status |-> s]

IsFileHook(h) == h.tool \in FileTools

\* The status answers only matter to a pre-modification check of a file tool.
Instances(h) ==
    IF h.hook_event_name = "PreToolUse" /\ IsFileHook(h)
    THEN {Down} \cup {Up(s) : s \in StatusAnswers}
    ELSE {Down, Up(ErrResult)}

\* The neovim coordinator exists twice in the sources: the loops of
\* NeovimAction (action/neovim.rs) and the iterator chains of
\* action/neovim/connection.rs.  Only fan-outs of a file tool's hook reach one.
Impls(h) ==
    IF IsFileHook(h) THEN {"loop", "iter"} ELSE {"iter"}

(***************************************************************************)
(* HookOutput and its serialisation                                        *)
(***************************************************************************)

\* HookOutput::new(): every field None.
HookOutputNew == [hook_specific_output |-> None]

\* A deny that also carries the reason as additional context.
WithPermissionDecisionAndContext(out, decision, reason) ==
    [out EXCEPT !.hook_specific_output =
        Some([hook_event_name |-> "PreToolUse",
              permission_decision |-> Some(decision),
              permission_decision_reason |-> reason,
              additional_context |-> reason])]

\* HookOutput::with_permission_decision
WithPermissionDecision(out, decision, reason) ==
    [out EXCEPT !.hook_specific_output =
        Some([hook_event_name |-> "PreToolUse",
              permission_decision |-> Some(decision),
              permission_decision_reason |-> reason,
              additional_context |-> None])]

\* HookOutput::with_additional_context (called by handle_user_prompt_submit)
WithAdditionalContext(out, context) ==
    [out EXCEPT !.hook_specific_output =
        Some([hook_event_name |-> "UserPromptSubmit",
              permission_decision |-> None,
              permission_decision_reason |-> None,
              additional_context |-> Some(context)])]

\* serde: a field that is None is skipped; a JSON object is the set of its
\* <<key, value>> members.
JsonField(key, opt) == IF opt = None THEN {} ELSE {<<key, opt[1]>>}

HookSpecificOutputToJson(h) ==
    {<<"hookEventName", h.hook_event_name>>}
        \cup JsonField("permissionDecision", h.permission_decision)
        \cup JsonField("permissionDecisionReason", h.permission_decision_reason)
        \cup JsonField("additionalContext", h.additional_context)

\* HookOutput::to_json
ToJson(out) ==
    IF out.hook_specific_output = None
    THEN {}
    ELSE {<<"hookSpecificOutput", HookSpecificOutputToJson(out.hook_specific_output[1])>>}

DenyReason == "The file is being edited by the user, try again later"

NotifyMessage == "Claude tried to edit this file"

\* The code fence of the rendered block: three backquotes, which a TLA+
\* string cannot hold.
Fence == "<fence>"

\* The block handle_user_prompt_submit renders for one selection.
RenderSelection(ctx) ==
    "[Selected from " \o ctx.file_path \o ":" \o ToString(ctx.start_line) \o "-"
        \o ToString(ctx.end_line) \o "]\n" \o Fence \o "\n" \o ctx.content
        \o "\n" \o Fence

RECURSIVE Join(_, _)
Join(blocks, sep) ==
    IF blocks = <<>> THEN ""
    ELSE IF Len(blocks) = 1 THEN blocks[1]
    ELSE blocks[1] \o sep \o Join(Tail(blocks), sep)

\* A rendering that puts the blocks on consecutive lines.
RenderContextNoBlankLine(sels) ==
    Join([i \in 1..Len(sels) |-> RenderSelection(sels[i])], "\n")

RenderContext(sels) ==
    Join([i \in 1..Len(sels) |-> RenderSelection(sels[i])], "\n\n")

(***************************************************************************)
(* The fold strategies, one visited address at a time                      *)
(***************************************************************************)

\* NeovimAction::for_each_instance: the loop visits every socket.
ForEachLoopStep(any, ok) == [any |-> any \/ ok, stop |-> FALSE]

\* A for_each_instance that gives up after the first closure, whatever it
\* returned.
ForEachIterStepOneVisit(any, ok) == [any |-> ok, stop |-> TRUE]

\* A for_each_instance that keeps the outcome of the last closure only.
ForEachIterStepLastWins(any, ok) == [any |-> ok, stop |-> FALSE]

\* connection::for_each_instance: Iterator::any over the lazily connected
\* clients returns at the first closure that succeeds.
ForEachIterStep(any, ok) == [any |-> ok, stop |-> ok]

ForEachStep(variant, any, ok) ==
    IF variant = "loop" THEN ForEachLoopStep(any, ok) ELSE ForEachIterStep(any, ok)

\* A closure that swallows the error of its remote call and returns Ok.
StatusClosureSwallowsError(acc, res) ==
    IF ~res.ok
    THEN [ok |-> TRUE, acc |-> acc, continue |-> TRUE]
    ELSE LET new == [is_current |-> acc.is_current \/ res.is_current,
                     has_unsaved_changes |->
                         acc.has_unsaved_changes \/ res.has_unsaved_changes]
         IN  [ok |-> TRUE, acc |-> new, continue |-> ~new.has_unsaved_changes]

\* A closure that ends the fold once the file is known to be current.
StatusClosureStopsOnCurrent(acc, res) ==
    IF ~res.ok
    THEN [ok |-> FALSE, acc |-> acc, continue |-> TRUE]
    ELSE LET new == [is_current |-> acc.is_current \/ res.is_current,
                     has_unsaved_changes |->
                         acc.has_unsaved_changes \/ res.has_unsaved_changes]
         IN  [ok |-> TRUE, acc |-> new, continue |-> ~new.is_current]

\* The closure buffer_status hands to try_fold_instances: `?` returns the
\* error before the accumulator is touched; otherwise both fields are OR-ed
\* in and the fold continues while no unsaved change has been seen.
StatusClosure(acc, res) ==
    IF ~res.ok
    THEN [ok |-> FALSE, acc |-> acc, continue |-> TRUE]
    ELSE LET new == [is_current |-> acc.is_current \/ res.is_current,
                     has_unsaved_changes |->
                         acc.has_unsaved_changes \/ res.has_unsaved_changes]
         IN  [ok |-> TRUE, acc |-> new, continue |-> ~new.has_unsaved_changes]

\* A try_fold_instances that ignores the closure's `continue` flag.
TryFoldStepNoEarlyExit(any_processed, r) ==
    [acc |-> r.acc, any_processed |-> any_processed \/ r.ok, stop |-> FALSE]

\* try_fold_instances, the step for one connected client: r is what the
\* closure returned and left in the accumulator.
TryFoldStep(any_processed, r) ==
    IF r.ok
    THEN [acc |-> r.acc, any_processed |-> TRUE, stop |-> ~r.continue]
    ELSE [acc |-> r.acc, any_processed |-> any_processed, stop |-> FALSE]

\* A try_fold_instances that tells "processed" by the accumulator having moved.
TryFoldResultIfChanged(any_processed, acc) ==
    IF acc # NoStatus THEN Some(acc) ELSE None

\* try_fold_instances' return value: any_processed.then(...)
TryFoldResult(any_processed, acc) ==
    IF any_processed THEN Some(acc) ELSE None

\* A collect_all that puts each new value in front.
CollectStepPrepend(out, res) ==
    IF res.ok /\ res.sel # None THEN <<res.sel[1]>> \o out ELSE out

\* collect_all: filter_map(|client| f(client).ok().flatten())
CollectStep(out, res) ==
    IF res.ok /\ res.sel # None THEN Append(out, res.sel[1]) ELSE out

\* A fold that reports a blocking status when it processed no instance.
UnwrapOrBlocked(opt) ==
    IF opt = None THEN [is_current |-> TRUE, has_unsaved_changes |-> TRUE] ELSE opt[1]

\* buffer_status: .unwrap_or((false, false))
UnwrapOrNoStatus(opt) == IF opt = None THEN NoStatus ELSE opt[1]

\* EditorActions::buffer_status: one backend's status OR-ed into `combined`.
Combine(c, status) ==
    [is_current |-> c.is_current \/ status.is_current,
     has_unsaved_changes |-> c.has_unsaved_changes \/ status.has_unsaved_changes]

\* A deny branch taken on either flag.
ShouldDenyEither(status) == status.has_unsaved_changes \/ status.is_current

\* check_buffer_modifications: the condition of the deny branch.
ShouldDeny(status) == status.has_unsaved_changes /\ status.is_current

(***************************************************************************)
(* State                                                                   *)
(***************************************************************************)

VARIABLES
    hook,          \* the parsed hook (stdin)
    cwd_ok,        \* whether the working directory can be read and canonicalized
    impl,          \* which neovim coordinator is built: "loop" or "iter"
    world,         \* world[k][a]: the instance behind socket a of kind k
    socket_paths,  \* EditorActions: the discovered sockets of each kind
    pc,            \* position of handle_hook
    phase,         \* index in KindOrder of the backend an EditorActions method is at
    fan,           \* the fan-out in progress
    combined,      \* EditorActions::buffer_status: the combined status
    selections,    \* EditorActions::get_visual_selections: the collected vector
    output,        \* the HookOutput the handler returned
    stdout,        \* what was written to stdout
    log,           \* every connect and call made, in order
    returns        \* what each finished fan-out returned

\* The JSON-RPC client (action/vscode/rpc.rs), with the threads of the
\* process that send requests through it.
VARIABLES
    REQUEST_ID,    \* static REQUEST_ID: AtomicU64, the process-wide counter
    rpc_pc,        \* rpc_pc[t]: position of thread t in send_request
    rpc_id,        \* rpc_id[t]: the local `id` of thread t's send_request
    rpc_method,    \* rpc_method[t]: the method of thread t's request
    drawn,         \* the ids fetch_add returned, in the order it returned them
    sent,          \* the requests written to a stream, in writing order
    exchanged      \* the exchange that completed last: its response and outcome

handler_vars ==
    <<hook, cwd_ok, impl, world, socket_paths, pc, phase, fan, combined,
      selections, output, stdout, log, returns>>

rpc_vars == <<REQUEST_ID, rpc_pc, rpc_id, rpc_method, drawn, sent, exchanged>>

\* Addressing (utils.rs): the socket files of /tmp and one discovery.
VARIABLES
    fs,            \* the paths that exist in /tmp
    computed,      \* the addresses instances computed: [cwd, kind, pid, path]
    find_cwd,      \* the working directory of the process that discovers
    find_kind,     \* which of find_neovim_sockets / find_vscode_sockets runs
    find_pc,       \* its position: "idle", "filter", "done"
    find_entries,  \* the paths the glob iterator has still to yield
    find_found,    \* the paths collected so far
    find_stable,   \* the paths that have existed since the discovery began
    find_gone      \* the paths the filter dropped because they no longer exist

addr_vars ==
    <<fs, computed, find_cwd, find_kind, find_pc, find_entries, find_found,
      find_stable, find_gone>>

\* One fan-out seen at the level of its blocking steps (rpc.rs connect and
\* send_request, neovim/connection.rs connect).
VARIABLES
    tr_kind,       \* the kind of editor the fan-out goes over
    tr_peers,      \* how the instance behind each address behaves
    tr_i,          \* the address being visited
    tr_pc,         \* the step the calling thread is in
    tr_timeout,    \* the receive timeout set on the connection, if any
    tr_waited,     \* the seconds the current receive has been blocked
    tr_calls,      \* the remote calls answered in the current visit
    tr_outcomes    \* how the visit of each address ended

tr_vars ==
    <<tr_kind, tr_peers, tr_i, tr_pc, tr_timeout, tr_waited, tr_calls,
      tr_outcomes>>

\* One Neovim instance during get_buffer_status (neovim/buffer.rs), with
\* its user at work.
VARIABLES
    nv_current,    \* the file's buffer is the current buffer
    nv_modified,   \* the file's buffer has unsaved changes
    nv_pc,         \* position of get_buffer_status
    nv_is_current, \* its local is_current
    nv_status,     \* the BufferStatus it returned, if it has
    nv_exhibited,  \* the (current, modified) pairs the instance has been in
    nv_user_steps  \* what the user has done since the call began

nv_vars ==
    <<nv_current, nv_modified, nv_pc, nv_is_current, nv_status, nv_exhibited,
      nv_user_steps>>

\* One remote operation on one editor instance (neovim/buffer.rs,
\* neovim/lua.rs, vscode.rs get_visual_selections).
VARIABLES
    ed_instance,   \* the instance: its buffers, windows, mode and marks
    ed_before,     \* the instance as it was when the operation began
    ed_request,    \* the operation and its argument
    ed_reply       \* what the operation returned, if it has

ed_vars == <<ed_instance, ed_before, ed_request, ed_reply>>

\* What a step of one part of the program leaves alone.
beside_handler == <<rpc_vars, addr_vars, tr_vars, nv_vars, ed_vars>>

beside_rpc == <<handler_vars, addr_vars, tr_vars, nv_vars, ed_vars>>

beside_addr == <<handler_vars, rpc_vars, tr_vars, nv_vars, ed_vars>>

beside_tr == <<handler_vars, rpc_vars, addr_vars, nv_vars, ed_vars>>

beside_nv == <<handler_vars, rpc_vars, addr_vars, tr_vars, ed_vars>>

beside_ed == <<handler_vars, rpc_vars, addr_vars, tr_vars, nv_vars>>

vars == <<handler_vars, rpc_vars, addr_vars, tr_vars, nv_vars, ed_vars>>

IdleFan ==
    [strategy |-> "none", op |-> "none", kind |-> "none", variant |-> "none",
     i |-> 0, client |-> FALSE, acc |-> NoStatus, any |-> FALSE,
     out |-> <<>>, stop |-> FALSE]

\* The requests the threads of the process send in all.
MaxRequests == 3

\* The threads of the process that use the client.
RpcThreads == {"t1", "t2"}

\* No request has been made: the counter holds AtomicU64::new(1).
RpcIdle ==
    /\ REQUEST_ID = 1
    /\ rpc_pc = [t \in RpcThreads |-> "idle"]
    /\ rpc_id = [t \in RpcThreads |-> 0]
    /\ rpc_method = [t \in RpcThreads |-> "none"]
    /\ drawn = <<>>
    /\ sent = <<>>
    /\ exchanged = <<>>

\* No discovery is under way and /tmp holds no socket.
AddrIdle ==
    /\ fs = {}
    /\ computed = {}
    /\ find_cwd = "/w"
    /\ find_kind = "neovim"
    /\ find_pc = "idle"
    /\ find_entries = {}
    /\ find_found = <<>>
    /\ find_stable = {}
    /\ find_gone = {}

\* No fan-out is being followed step by step.
TrIdle ==
    /\ tr_kind = "vscode"
    /\ tr_peers = <<>>
    /\ tr_i = 1
    /\ tr_pc = "finished"
    /\ tr_timeout = None
    /\ tr_waited = 0
    /\ tr_calls = 0
    /\ tr_outcomes = <<>>

\* No status call is being followed inside an instance.
NvIdle ==
    /\ nv_current = FALSE
    /\ nv_modified = FALSE
    /\ nv_pc = "returned"
    /\ nv_is_current = FALSE
    /\ nv_status = None
    /\ nv_exhibited = {}
    /\ nv_user_steps = 0

\* No remote operation is being followed inside an instance.
EdIdle ==
    /\ ed_instance = <<>>
    /\ ed_before = <<>>
    /\ ed_request = <<>>
    /\ ed_reply = None

\* The parts of the program that are followed in specifications of their
\* own are at rest.
PartsIdle == RpcIdle /\ AddrIdle /\ TrIdle /\ NvIdle /\ EdIdle

Init ==
    /\ PartsIdle
    /\ hook \in Hooks
    /\ cwd_ok \in BOOLEAN
    /\ impl \in Impls(hook)
    /\ \E n \in 0..MaxInst, v \in 0..MaxInst :
          /\ n + v <= MaxInst
          /\ world \in [neovim : [1..n -> Instances(hook)],
                        vscode : [1..v -> Instances(hook)]]
    /\ socket_paths = [neovim |-> <<>>, vscode |-> <<>>]
    /\ pc = "get_editor_actions"
    /\ phase = 1
    /\ fan = IdleFan
    /\ combined = NoStatus
    /\ selections = <<>>
    /\ output = HookOutputNew
    /\ stdout = <<>>
    /\ log = <<>>
    /\ returns = <<>>

(***************************************************************************)
(* handle_hook                                                             *)
(***************************************************************************)

\* utils::find_neovim_sockets / find_vscode_sockets: the sockets of a kind
\* that exist when the invocation globs for them, in enumeration order.
DiscoverSockets(k) == [a \in 1..Len(world[k]) |-> a]

\* A discovery that treats an unusable working directory as "no editor".
GetEditorActionsFallsBack ==
    /\ pc = "get_editor_actions"
    /\ socket_paths' = IF cwd_ok
                       THEN [neovim |-> DiscoverSockets("neovim"),
                             vscode |-> DiscoverSockets("vscode")]
                       ELSE socket_paths
    /\ pc' = "dispatch"
    /\ UNCHANGED <<beside_handler, hook, cwd_ok, impl, world, phase, fan, combined, selections,
                   output, stdout, log, returns>>

\* get_editor_actions: the first `?` fails when the working directory cannot
\* be hashed; otherwise both kinds are discovered.
GetEditorActions ==
    /\ pc = "get_editor_actions"
    /\ IF cwd_ok
       THEN /\ socket_paths' = [neovim |-> DiscoverSockets("neovim"),
                                vscode |-> DiscoverSockets("vscode")]
            /\ pc' = "dispatch"
       ELSE /\ socket_paths' = socket_paths
            /\ pc' = "error"
    /\ UNCHANGED <<beside_handler, hook, cwd_ok, impl, world, phase, fan, combined, selections,
                   output, stdout, log, returns>>

\* EditorActions::has_any
HasAny == socket_paths.neovim # <<>> \/ socket_paths.vscode # <<>>

\* A dispatch that does not look at the tool.
TargetWhateverTool(h) ==
    IF h.hook_event_name = "UserPromptSubmit" THEN "get_visual_selections"
    ELSE IF h.hook_event_name = "PreToolUse" THEN "buffer_status"
    ELSE "refresh_buffer"

\* The EditorActions method the hook leads to: handle_hook's match and the
\* matches of handle_pre_tool_use / handle_post_tool_use.
Target(h) ==
    IF h.hook_event_name = "UserPromptSubmit" THEN "get_visual_selections"
    ELSE IF ~IsFileHook(h) THEN "none"
    ELSE IF h.hook_event_name = "PreToolUse" THEN "buffer_status"
    ELSE "refresh_buffer"

\* handle_hook's dispatch, up to the first EditorActions call: a tool that is
\* not a file tool, and a hook with no editor at all, return HookOutput::new().
Dispatch ==
    /\ pc = "dispatch"
    /\ pc' = IF Target(hook) = "none" \/ ~HasAny THEN "write" ELSE Target(hook)
    /\ output' = HookOutputNew
    /\ phase' = 1
    /\ UNCHANGED <<beside_handler, hook, cwd_ok, impl, world, socket_paths, fan, combined,
                   selections, stdout, log, returns>>

(***************************************************************************)
(* The fan-outs                                                            *)
(***************************************************************************)

MethodPcs == {"buffer_status", "send_message", "refresh_buffer", "get_visual_selections"}

\* The fold strategy each Action method uses and the remote operation its
\* closure calls.
StrategyOf(method) ==
    IF method = "buffer_status" THEN "try_fold"
    ELSE IF method = "get_visual_selections" THEN "collect_all"
    ELSE "for_each"

\* The coordinator a fan-out of kind k runs: collect_all exists only as the
\* iterator chain.
VariantOf(k, strategy) ==
    IF k = "neovim" /\ strategy # "collect_all" THEN impl ELSE "iter"

StartFan(method, k) ==
    [IdleFan EXCEPT !.strategy = StrategyOf(method),
                    !.op = method,
                    !.kind = k,
                    !.variant = VariantOf(k, StrategyOf(method)),
                    !.i = 1]

\* An EditorActions method reaches its next backend: `if let Some(ref x)`
\* skips a backend with no socket, otherwise the backend's Action method
\* starts its fan-out.
BeginFan ==
    /\ pc \in MethodPcs
    /\ fan = IdleFan
    /\ phase <= Len(KindOrder)
    /\ IF socket_paths[KindOrder[phase]] = <<>>
       THEN phase' = phase + 1 /\ fan' = fan
       ELSE phase' = phase /\ fan' = StartFan(pc, KindOrder[phase])
    /\ UNCHANGED <<beside_handler, hook, cwd_ok, impl, world, socket_paths, pc, combined,
                   selections, output, stdout, log, returns>>

FanRunning == fan.strategy # "none"

FanExhausted == fan.i > Len(socket_paths[fan.kind])

\* The argument the method's closure passes to the remote operation.
RequestArg(op) ==
    IF op = "send_message" THEN NotifyMessage
    ELSE IF op = "get_visual_selections" THEN ""
    ELSE "file_path"

LogEntry(ev, ok, res) ==
    [kind |-> fan.kind, addr |-> socket_paths[fan.kind][fan.i], op |-> fan.op,
     arg |-> RequestArg(fan.op), ev |-> ev, ok |-> ok, res |-> res]

\* A fan-out that gives up at the first socket that refuses.
ConnectAbortsOnRefusal ==
    /\ FanRunning
    /\ ~fan.client
    /\ ~fan.stop
    /\ ~FanExhausted
    /\ LET inst == world[fan.kind][socket_paths[fan.kind][fan.i]]
       IN  /\ log' = Append(log, LogEntry("connect", inst.conn, ErrResult))
           /\ fan' = IF inst.conn
                     THEN [fan EXCEPT !.client = TRUE]
                     ELSE [fan EXCEPT !.i = fan.i + 1, !.stop = TRUE]
    /\ UNCHANGED <<beside_handler, hook, cwd_ok, impl, world, socket_paths, pc, phase, combined,
                   selections, output, stdout, returns>>

\* connect(path).ok(): the next socket of the list is connected to; a socket
\* that refuses is skipped.
Connect ==
    /\ FanRunning
    /\ ~fan.client
    /\ ~fan.stop
    /\ ~FanExhausted
    /\ LET inst == world[fan.kind][socket_paths[fan.kind][fan.i]]
       IN  /\ log' = Append(log, LogEntry("connect", inst.conn, ErrResult))
           /\ fan' = IF inst.conn
                     THEN [fan EXCEPT !.client = TRUE]
                     ELSE [fan EXCEPT !.i = fan.i + 1]
    /\ UNCHANGED <<beside_handler, hook, cwd_ok, impl, world, socket_paths, pc, phase, combined,
                   selections, output, stdout, returns>>

\* What the connected instance may answer to the operation.
Answers(op, inst) ==
    IF op = "buffer_status" THEN {inst.status}
    ELSE IF op = "get_visual_selections" THEN SelectionAnswers
    ELSE CommandAnswers

\* The strategy's bookkeeping after the closure ran on the connected client.
AfterCall(f, res) ==
    IF f.strategy = "for_each"
    THEN LET s == ForEachStep(f.variant, f.any, res.ok)
         IN  [f EXCEPT !.any = s.any, !.stop = s.stop]
    ELSE IF f.strategy = "try_fold"
    THEN LET s == TryFoldStep(f.any, StatusClosure(f.acc, res))
         IN  [f EXCEPT !.acc = s.acc, !.any = s.any_processed, !.stop = s.stop]
    ELSE [f EXCEPT !.out = CollectStep(f.out, res)]

\* A fan-out that goes back to an address whose call failed.
CallRetriesFailure ==
    /\ FanRunning
    /\ fan.client
    /\ \E res \in Answers(fan.op, world[fan.kind][socket_paths[fan.kind][fan.i]]) :
          /\ log' = Append(log, LogEntry("call", res.ok, res))
          /\ fan' = [AfterCall(fan, res) EXCEPT
                        !.client = FALSE,
                        !.i = IF res.ok THEN fan.i + 1 ELSE fan.i]
    /\ UNCHANGED <<beside_handler, hook, cwd_ok, impl, world, socket_paths, pc, phase, combined,
                   selections, output, stdout, returns>>

\* The closure runs on the connected client; the client is dropped and the
\* strategy moves on to the next socket, or stops.
Call ==
    /\ FanRunning
    /\ fan.client
    /\ \E res \in Answers(fan.op, world[fan.kind][socket_paths[fan.kind][fan.i]]) :
          /\ log' = Append(log, LogEntry("call", res.ok, res))
          /\ fan' = [AfterCall(fan, res) EXCEPT !.client = FALSE, !.i = fan.i + 1]
    /\ UNCHANGED <<beside_handler, hook, cwd_ok, impl, world, socket_paths, pc, phase, combined,
                   selections, output, stdout, returns>>

\* An Action method that returns Ok whatever its fan-out found.
ActionResultAlwaysOk(f) == "Ok"

\* The Result the Action method returns to EditorActions: refresh_buffer
\* and send_message bail when for_each_instance returned false;
\* buffer_status and get_visual_selections always return Ok.
ActionResult(f) ==
    IF f.strategy = "for_each" /\ ~f.any THEN "Err" ELSE "Ok"

\* What the finished fan-out returns to the Action method, and the Action
\* method to EditorActions.
ReturnOf(f) ==
    [kind |-> f.kind, op |-> f.op, strategy |-> f.strategy,
     result |-> ActionResult(f),
     any_success |-> f.strategy = "for_each" /\ f.any,
     folded |-> IF f.strategy = "try_fold" THEN TryFoldResult(f.any, f.acc) ELSE None,
     collected |-> f.out]

\* An EditorActions that hands a backend's error on with `?`, ending the
\* invocation before anything is written.
EndFanPropagatesError ==
    /\ FanRunning
    /\ ~fan.client
    /\ fan.stop \/ FanExhausted
    /\ returns' = Append(returns, ReturnOf(fan))
    /\ combined' = IF fan.op = "buffer_status"
                   THEN Combine(combined, UnwrapOrNoStatus(ReturnOf(fan).folded))
                   ELSE combined
    /\ selections' = IF fan.op = "get_visual_selections"
                     THEN selections \o ReturnOf(fan).collected
                     ELSE selections
    /\ fan' = IdleFan
    /\ phase' = phase + 1
    /\ pc' = IF ReturnOf(fan).result = "Err" THEN "error" ELSE pc
    /\ UNCHANGED <<beside_handler, hook, cwd_ok, impl, world, socket_paths, output, stdout, log>>

\* The fan-out returns and EditorActions folds the backend's result in:
\* buffer_status ORs the status into `combined`, get_visual_selections
\* appends the vector, refresh_buffer and send_message only log a warning.
EndFan ==
    /\ FanRunning
    /\ ~fan.client
    /\ fan.stop \/ FanExhausted
    /\ returns' = Append(returns, ReturnOf(fan))
    /\ combined' = IF fan.op = "buffer_status"
                   THEN Combine(combined, UnwrapOrNoStatus(ReturnOf(fan).folded))
                   ELSE combined
    /\ selections' = IF fan.op = "get_visual_selections"
                     THEN selections \o ReturnOf(fan).collected
                     ELSE selections
    /\ fan' = IdleFan
    /\ phase' = phase + 1
    /\ UNCHANGED <<beside_handler, hook, cwd_ok, impl, world, socket_paths, pc, output, stdout, log>>

MethodReturned(method) ==
    /\ pc = method
    /\ fan = IdleFan
    /\ phase > Len(KindOrder)

\* check_buffer_modifications, after actions.buffer_status returned.
CheckBufferModifications ==
    /\ MethodReturned("buffer_status")
    /\ IF ShouldDeny(combined)
       THEN pc' = "send_message" /\ phase' = 1 /\ output' = output
       ELSE pc' = "write" /\ phase' = phase /\ output' = HookOutputNew
    /\ UNCHANGED <<beside_handler, hook, cwd_ok, impl, world, socket_paths, fan, combined,
                   selections, stdout, log, returns>>

\* A check that writes deny only when some instance displayed the notice.
DenyIfNotified ==
    /\ MethodReturned("send_message")
    /\ output' = IF \E i \in 1..Len(returns) :
                        returns[i].op = "send_message" /\ returns[i].any_success
                 THEN WithPermissionDecision(HookOutputNew, "deny", Some(DenyReason))
                 ELSE HookOutputNew
    /\ pc' = "write"
    /\ UNCHANGED <<beside_handler, hook, cwd_ok, impl, world, socket_paths, phase, fan, combined,
                   selections, stdout, log, returns>>

\* A check that notifies the instances and then lets the tool proceed.
NotifyThenProceed ==
    /\ MethodReturned("send_message")
    /\ output' = HookOutputNew
    /\ pc' = "write"
    /\ UNCHANGED <<beside_handler, hook, cwd_ok, impl, world, socket_paths, phase, fan, combined,
                   selections, stdout, log, returns>>

\* check_buffer_modifications, after actions.send_message returned.
Deny ==
    /\ MethodReturned("send_message")
    /\ output' = WithPermissionDecision(HookOutputNew, "deny", Some(DenyReason))
    /\ pc' = "write"
    /\ UNCHANGED <<beside_handler, hook, cwd_ok, impl, world, socket_paths, phase, fan, combined,
                   selections, stdout, log, returns>>

\* A refresh that reports to the caller when no instance reloaded the file.
RefreshBufferReportsFailure ==
    /\ MethodReturned("refresh_buffer")
    /\ output' = IF \E i \in 1..Len(returns) : returns[i].any_success
                 THEN HookOutputNew
                 ELSE WithPermissionDecision(HookOutputNew, "deny", None)
    /\ pc' = "write"
    /\ UNCHANGED <<beside_handler, hook, cwd_ok, impl, world, socket_paths, phase, fan, combined,
                   selections, stdout, log, returns>>

\* refresh_buffer, after actions.refresh_buffer returned.
RefreshBuffer ==
    /\ MethodReturned("refresh_buffer")
    /\ output' = HookOutputNew
    /\ pc' = "write"
    /\ UNCHANGED <<beside_handler, hook, cwd_ok, impl, world, socket_paths, phase, fan, combined,
                   selections, stdout, log, returns>>

\* handle_user_prompt_submit, after actions.get_visual_selections returned.
HandleUserPromptSubmit ==
    /\ MethodReturned("get_visual_selections")
    /\ output' = IF selections = <<>>
                 THEN HookOutputNew
                 ELSE WithAdditionalContext(HookOutputNew, RenderContext(selections))
    /\ pc' = "write"
    /\ UNCHANGED <<beside_handler, hook, cwd_ok, impl, world, socket_paths, phase, fan, combined,
                   selections, stdout, log, returns>>

\* handle_hook: io::stdout().write_all(output.to_json()?.as_bytes())
WriteOutput ==
    /\ pc = "write"
    /\ stdout' = Append(stdout, ToJson(output))
    /\ pc' = "done"
    /\ UNCHANGED <<beside_handler, hook, cwd_ok, impl, world, socket_paths, phase, fan, combined,
                   selections, output, log, returns>>

Next ==
    \/ GetEditorActions
    \/ Dispatch
    \/ BeginFan
    \/ Connect
    \/ Call
    \/ EndFan
    \/ CheckBufferModifications
    \/ Deny
    \/ RefreshBuffer
    \/ HandleUserPromptSubmit
    \/ WriteOutput

Spec == Init /\ [][Next]_vars

\* The three file tools are handled alike, and so are the other tools: one
\* of each stands for its group where whole behaviours are examined.
FairInit == Init /\ hook.tool \in {"Edit", "Read", "none"}

\* The invocation is one sequential thread that runs until it returns:
\* a step that can be taken is taken.
FairSpec == FairInit /\ [][Next]_vars /\ WF_vars(Next)

(***************************************************************************)
(* RPCClient::send_request (action/vscode/rpc.rs)                          *)
(***************************************************************************)

\* A method sent with params and the one sent without: refresh_buffer and
\* send_message build their request as buffer_status does.
RpcMethods == {"buffer_status", "get_visual_selection"}

\* A member of the response object as it stands on the wire: left out,
\* the JSON null, or a value.
Absent == "absent"

Null == "null"

\* What read_line can produce: an I/O error (the read timeout included), a
\* line serde_json cannot parse into RPCResponse<R>, or a response object.
\* Its id repeats the request's id, is another number, or is left out.
NoLine == [kind |-> "none", id |-> Absent, result |-> Absent, error |-> Absent]

ResponseLines ==
    {[NoLine EXCEPT !.kind = "io_error"], [NoLine EXCEPT !.kind = "malformed"]}
        \cup [kind : {"object"},
              id : {Absent, "echo", "other"},
              result : {Absent, Null, "value"},
              error : {Absent, Null, "error"}]

\* serde, for a field of type Option<T>: a missing member and a null both
\* deserialize to None.
DeserializeOption(member) ==
    IF member \in {Absent, Null} THEN None ELSE Some(member)

\* serde_json::from_str::<RPCResponse<R>>
FromStr(line) ==
    IF line.kind # "object" THEN None
    ELSE Some([id |-> DeserializeOption(line.id),
               result |-> DeserializeOption(line.result),
               error |-> DeserializeOption(line.error)])

RpcOk(value) == [ok |-> TRUE, why |-> value]

RpcErr(why) == [ok |-> FALSE, why |-> why]

\* A client that takes the result when there is one and looks at the error
\* only otherwise.
SendRequestResultFirst(line) ==
    IF line.kind = "io_error" THEN RpcErr("io")
    ELSE IF FromStr(line) = None THEN RpcErr("Failed to parse RPC response")
    ELSE LET response == FromStr(line)[1]
         IN  IF response.result # None THEN RpcOk(response.result[1])
             ELSE IF response.error # None THEN RpcErr("RPC error")
             ELSE RpcErr("RPC response missing result")

\* send_request from read_line on: `?` on the read, `?` on the parse, bail
\* on an error member, ok_or_else on the result. The response's id is not
\* looked at.
SendRequestOutcome(line) ==
    IF line.kind = "io_error" THEN RpcErr("io")
    ELSE IF FromStr(line) = None THEN RpcErr("Failed to parse RPC response")
    ELSE LET response == FromStr(line)[1]
         IN  IF response.error # None THEN RpcErr("RPC error")
             ELSE IF response.result = None THEN RpcErr("RPC response missing result")
             ELSE RpcOk(response.result[1])

\* A counter that is read and written back in two steps.
FetchAddTorn(t) ==
    /\ \/ /\ rpc_pc[t] = "idle"
          /\ Len(drawn) < MaxRequests
          /\ \E m \in RpcMethods : rpc_method' = [rpc_method EXCEPT ![t] = m]
          /\ rpc_id' = [rpc_id EXCEPT ![t] = REQUEST_ID]
          /\ rpc_pc' = [rpc_pc EXCEPT ![t] = "loaded"]
          /\ UNCHANGED <<REQUEST_ID, drawn>>
       \/ /\ rpc_pc[t] = "loaded"
          /\ REQUEST_ID' = rpc_id[t] + 1
          /\ drawn' = Append(drawn, rpc_id[t])
          /\ rpc_pc' = [rpc_pc EXCEPT ![t] = "write"]
          /\ UNCHANGED <<rpc_id, rpc_method>>
    /\ UNCHANGED <<beside_rpc, sent, exchanged>>

\* send_request is entered and REQUEST_ID.fetch_add(1, SeqCst) returns the
\* counter's value, leaving it one higher, in one atomic step. (The
\* counter wraps at 2^64, beyond every run modelled here.)
FetchAdd(t) ==
    /\ rpc_pc[t] = "idle"
    /\ Len(drawn) < MaxRequests
    /\ \E m \in RpcMethods : rpc_method' = [rpc_method EXCEPT ![t] = m]
    /\ rpc_id' = [rpc_id EXCEPT ![t] = REQUEST_ID]
    /\ REQUEST_ID' = REQUEST_ID + 1
    /\ drawn' = Append(drawn, REQUEST_ID)
    /\ rpc_pc' = [rpc_pc EXCEPT ![t] = "write"]
    /\ UNCHANGED <<beside_rpc, sent, exchanged>>

\* RPCRequest { id, method, params } as one line of JSON:
\* get_visual_selection has no params and the member is skipped.
RPCRequest(id, method) ==
    {<<"id", id>>, <<"method", method>>}
        \cup JsonField("params",
                       IF method = "get_visual_selection" THEN None ELSE Some("params"))

\* The thread is back from send_request.
SendRequestReturns(t) ==
    /\ rpc_pc' = [rpc_pc EXCEPT ![t] = "idle"]
    /\ rpc_id' = [rpc_id EXCEPT ![t] = 0]
    /\ rpc_method' = [rpc_method EXCEPT ![t] = "none"]

\* writeln! and flush: the request goes out, or `?` returns the I/O error.
WriteRequest(t) ==
    /\ rpc_pc[t] = "write"
    /\ \/ /\ sent' = Append(sent, RPCRequest(rpc_id[t], rpc_method[t]))
          /\ rpc_pc' = [rpc_pc EXCEPT ![t] = "read"]
          /\ UNCHANGED <<rpc_id, rpc_method, exchanged>>
       \/ /\ exchanged' = <<[line |-> NoLine, outcome |-> RpcErr("io")]>>
          /\ SendRequestReturns(t)
          /\ sent' = sent
    /\ UNCHANGED <<beside_rpc, REQUEST_ID, drawn>>

\* read_line and the rest of send_request.
ReadResponse(t) ==
    /\ rpc_pc[t] = "read"
    /\ \E line \in ResponseLines :
          exchanged' = <<[line |-> line, outcome |-> SendRequestOutcome(line)]>>
    /\ SendRequestReturns(t)
    /\ UNCHANGED <<beside_rpc, REQUEST_ID, drawn, sent>>

\* No hook is being handled: the part of the program under study runs on
\* its own.
HandlerIdle ==
    /\ hook = [hook_event_name |-> "UserPromptSubmit", tool |-> "none"]
    /\ cwd_ok = TRUE
    /\ impl = "iter"
    /\ world = [neovim |-> <<>>, vscode |-> <<>>]
    /\ socket_paths = [neovim |-> <<>>, vscode |-> <<>>]
    /\ pc = "get_editor_actions"
    /\ phase = 1
    /\ fan = IdleFan
    /\ combined = NoStatus
    /\ selections = <<>>
    /\ output = HookOutputNew
    /\ stdout = <<>>
    /\ log = <<>>
    /\ returns = <<>>

RpcInit == PartsIdle /\ HandlerIdle

RpcNext ==
    \E t \in RpcThreads :
        \/ FetchAdd(t)
        \/ WriteRequest(t)
        \/ ReadResponse(t)

RpcSpec == RpcInit /\ [][RpcNext]_vars

TypeOK ==
    /\ hook \in Hooks
    /\ pc \in MethodPcs \cup {"get_editor_actions", "dispatch", "write", "done", "error"}
    /\ phase \in 1..(Len(KindOrder) + 1)
    /\ combined \in BufferStatus
    /\ Len(stdout) <= 1

(***************************************************************************)
(* buffer_status as a function of the visiting order                       *)
(***************************************************************************)

Range(f) == {f[x] : x \in DOMAIN f}

\* The orders a set of discovered sockets can be enumerated in.
Orders(paths) ==
    {p \in [1..Len(paths) -> Range(paths)] : Range(p) = Range(paths)}

\* try_fold_instances with buffer_status' closure over the sockets `paths`
\* of kind k, the whole fold at once.
RECURSIVE TryFoldInstances(_, _, _, _)
TryFoldInstances(k, paths, acc, any_processed) ==
    IF paths = <<>>
    THEN TryFoldResult(any_processed, acc)
    ELSE LET inst == world[k][Head(paths)]
         IN  IF ~inst.conn
             THEN TryFoldInstances(k, Tail(paths), acc, any_processed)
             ELSE LET s == TryFoldStep(any_processed, StatusClosure(acc, inst.status))
                  IN  IF s.stop
                      THEN TryFoldResult(s.any_processed, s.acc)
                      ELSE TryFoldInstances(k, Tail(paths), s.acc, s.any_processed)

\* VSCodeAction::buffer_status / NeovimAction::buffer_status
ActionBufferStatus(k, paths) ==
    UnwrapOrNoStatus(TryFoldInstances(k, paths, NoStatus, FALSE))

\* EditorActions::buffer_status with the neovim sockets visited in the order
\* np and the vscode sockets in the order vp.
EditorBufferStatus(np, vp) ==
    LET n == IF np = <<>> THEN NoStatus
             ELSE Combine(NoStatus, ActionBufferStatus("neovim", np))
    IN  IF vp = <<>> THEN n ELSE Combine(n, ActionBufferStatus("vscode", vp))

(***************************************************************************)
(* Properties                                                              *)
(***************************************************************************)

IsPreCheck == hook.hook_event_name = "PreToolUse" /\ IsFileHook(hook)

\* actions.buffer_status(file_path) has returned to check_buffer_modifications.
StatusComputed ==
    /\ IsPreCheck
    /\ \/ pc \in {"send_message", "write", "done"} /\ HasAny
       \/ pc = "buffer_status" /\ fan = IdleFan /\ phase > Len(KindOrder)

\* The instances that accept a connection and answer the status query.
Answering(k) ==
    {a \in DOMAIN world[k] : world[k][a].conn /\ world[k][a].status.ok}

\* Some reachable instance has the file as its current buffer, unsaved.
CurrentAndUnsavedSomewhere ==
    \E k \in Kinds : \E a \in Answering(k) :
        world[k][a].status.is_current /\ world[k][a].status.has_unsaved_changes

\* The two payloads a pre-modification check can write, as JSON.
ProceedPayload == {}

DenyPayload ==
    {<<"hookSpecificOutput",
       {<<"hookEventName", "PreToolUse">>,
        <<"permissionDecision", "deny">>,
        <<"permissionDecisionReason", DenyReason>>}>>}

\* The log entries of the fan-out that returned r.
EntriesOf(r) ==
    {i \in 1..Len(log) : log[i].kind = r.kind /\ log[i].op = r.op}

Returned(strategy) ==
    {i \in 1..Len(returns) : returns[i].strategy = strategy}

\* The step-wise fold and the fold as a function agree.
StepsAgreeWithFold ==
    StatusComputed =>
        combined = EditorBufferStatus(socket_paths.neovim, socket_paths.vscode)

\* C1: for fixed instances and answers, the aggregated status (both fields)
\* is the same for every order the addresses are visited in.
C1_OrderIndependent ==
    StatusComputed =>
        \A np \in Orders(socket_paths.neovim) :
            \A vp \in Orders(socket_paths.vscode) :
                EditorBufferStatus(np, vp) = combined

\* C2: the aggregated status is, field by field, the OR of the statuses of
\* all instances of both kinds that are reachable and answer.
C2_StatusIsOrOfAnswering ==
    StatusComputed =>
        /\ combined.is_current =
              (\E k \in Kinds : \E a \in Answering(k) : world[k][a].status.is_current)
        /\ combined.has_unsaved_changes =
              (\E k \in Kinds : \E a \in Answering(k) :
                  world[k][a].status.has_unsaved_changes)

\* C3: a pre-modification check of a file tool writes the deny payload, with
\* a non-empty reason, exactly when the aggregated status has both flags
\* set, and the empty payload in every other case.
C3_DenyIffCurrentAndUnsaved ==
    (pc = "done" /\ IsPreCheck) =>
        IF combined.has_unsaved_changes /\ combined.is_current
        THEN stdout = <<DenyPayload>> /\ DenyReason # ""
        ELSE stdout = <<ProceedPayload>>

C3_Witness ==
    /\ pc = "done"
    /\ IsPreCheck
    /\ stdout = <<DenyPayload>>
    /\ combined = [is_current |-> TRUE, has_unsaved_changes |-> TRUE]

\* C4: deny is written only if one and the same reachable instance has the
\* file as its current buffer and has unsaved changes in it.
C4_DenyOnlyIfOneInstanceHasBoth ==
    (pc = "done" /\ stdout = <<DenyPayload>>) => CurrentAndUnsavedSomewhere

\* C5: whenever some reachable instance has the file as its current buffer
\* with unsaved changes, the pre-modification check writes deny.
C5_CurrentAndUnsavedIsDenied ==
    (pc = "done" /\ IsPreCheck /\ CurrentAndUnsavedSomewhere) =>
        stdout = <<DenyPayload>>

\* C6: once the accumulated has_unsaved_changes of a status fan-out is true,
\* no further address is connected to or queried.
C6_EarlyExitStops ==
    [][(fan.op = "buffer_status" /\ fan.acc.has_unsaved_changes) => log' = log]_vars

C6_Witness ==
    /\ fan.op = "buffer_status"
    /\ fan.acc.has_unsaved_changes
    /\ fan.stop
    /\ ~FanExhausted
    /\ world[fan.kind][socket_paths[fan.kind][fan.i]].conn

\* C7: any-success invokes the operation on every address of the list that
\* accepts a connection.
C7_ForEachCallsEveryReachable ==
    \A i \in Returned("for_each") :
        \A a \in Range(socket_paths[returns[i].kind]) :
            world[returns[i].kind][a].conn =>
                \E j \in EntriesOf(returns[i]) : log[j].addr = a /\ log[j].ev = "call"

\* C8: any-success returns true iff some address both connected and
\* completed the operation; failures elsewhere do not turn it false.
C8_AnySuccessIffOneSucceeded ==
    \A i \in Returned("for_each") :
        returns[i].any_success <=>
            \E j \in EntriesOf(returns[i]) : log[j].ev = "call" /\ log[j].ok

C8_Witness ==
    \E i \in Returned("for_each") :
        /\ returns[i].any_success
        /\ \E j \in EntriesOf(returns[i]) : log[j].ev = "call" /\ ~log[j].ok
        /\ \E j \in EntriesOf(returns[i]) : log[j].ev = "connect" /\ ~log[j].ok

\* C9: accumulate-with-early-exit returns none exactly when no address both
\* connected and had the combining step succeed, and otherwise the
\* accumulator: the OR of the statuses combined, also after an early stop.
C9_TryFoldNoneIffNothingProcessed ==
    \A i \in Returned("try_fold") :
        LET done == {j \in EntriesOf(returns[i]) : log[j].ev = "call" /\ log[j].ok}
        IN  /\ returns[i].folded = None <=> done = {}
            /\ returns[i].folded # None =>
                  returns[i].folded[1] =
                      [is_current |-> \E j \in done : log[j].res.is_current,
                       has_unsaved_changes |->
                           \E j \in done : log[j].res.has_unsaved_changes]

\* A fold that processed an address and still holds the initial accumulator.
C9_Witness ==
    \E i \in Returned("try_fold") :
        /\ returns[i].folded = Some(NoStatus)
        /\ \E j \in EntriesOf(returns[i]) : log[j].ev = "call" /\ ~log[j].ok

\* The present values the calls of the fan-out that returned r produced,
\* in the order of the address list.
RECURSIVE PresentValues(_, _)
PresentValues(r, paths) ==
    IF paths = <<>> THEN <<>>
    ELSE LET got == {j \in EntriesOf(r) :
                        /\ log[j].addr = Head(paths)
                        /\ log[j].ev = "call"
                        /\ log[j].ok
                        /\ log[j].res.sel # None}
         IN  (IF got = {} THEN <<>> ELSE <<log[CHOOSE j \in got : TRUE].res.sel[1]>>)
                 \o PresentValues(r, Tail(paths))

\* C10: collect-all returns exactly the present values of the instances that
\* connected and answered, in address order, and visits every address.
C10_CollectAllKeepsPresentInOrder ==
    \A i \in Returned("collect_all") :
        /\ returns[i].collected =
              PresentValues(returns[i], socket_paths[returns[i].kind])
        /\ \A a \in Range(socket_paths[returns[i].kind]) :
              \E j \in EntriesOf(returns[i]) : log[j].addr = a /\ log[j].ev = "connect"

C10_Witness ==
    \E i \in Returned("collect_all") :
        /\ returns[i].collected = <<SelA, SelB>>
        /\ \E j \in EntriesOf(returns[i]) : log[j].ev = "call" /\ ~log[j].ok

\* The fan-outs of the notice that have returned.
Notified == {i \in 1..Len(returns) : returns[i].op = "send_message"}

\* C11: a pre-modification check that reached the deny branch writes the one
\* deny payload, whether the notice was displayed by every instance, by some
\* or by none.
C11_DenyWhateverNotify ==
    (pc = "done" /\ Notified # {}) => stdout = <<DenyPayload>>

\* Deny was written although the notice succeeded on one kind, failed on
\* the other, and one instance refused it.
C11_Witness ==
    /\ pc = "done"
    /\ stdout = <<DenyPayload>>
    /\ \E i \in Notified : returns[i].any_success
    /\ \E i \in Notified : ~returns[i].any_success
    /\ \E j \in 1..Len(log) :
          log[j].op = "send_message" /\ log[j].ev = "call" /\ ~log[j].ok

\* Deny was written although no instance displayed the notice.
C11_WitnessNone ==
    /\ pc = "done"
    /\ stdout = <<DenyPayload>>
    /\ \A i \in Notified : ~returns[i].any_success

IsPostRefresh == hook.hook_event_name = "PostToolUse" /\ IsFileHook(hook)

\* The instances of kind k that accept a connection.
Reachable(k) == {a \in DOMAIN world[k] : world[k][a].conn}

\* C12: a post-modification refresh has, when it ends, asked every reachable
\* instance of both kinds to reload the file; a successful reload on one
\* instance keeps no other reachable instance from being asked.
C12_RefreshReachesEveryInstance ==
    (pc = "done" /\ IsPostRefresh) =>
        \A k \in Kinds : \A a \in Reachable(k) :
            \E j \in 1..Len(log) :
                /\ log[j].kind = k
                /\ log[j].addr = a
                /\ log[j].op = "refresh_buffer"
                /\ log[j].ev = "call"

\* C13: a post-modification refresh writes the empty payload, whether the
\* reload succeeded on every instance, failed on every instance, or there
\* was no instance at all.
C13_RefreshWritesProceed ==
    (pc = "done" /\ hook.hook_event_name = "PostToolUse") =>
        stdout = <<ProceedPayload>>

\* The reload was attempted on both kinds and failed everywhere: a refused
\* connection and a failing call.
C13_Witness ==
    /\ pc = "done"
    /\ IsPostRefresh
    /\ stdout = <<ProceedPayload>>
    /\ Len(returns) = 2
    /\ \A i \in 1..Len(returns) : ~returns[i].any_success
    /\ \E j \in 1..Len(log) : log[j].ev = "call" /\ ~log[j].ok
    /\ \E j \in 1..Len(log) : log[j].ev = "connect" /\ ~log[j].ok

\* No operation completed on any instance: nothing was discovered, or every
\* connect was refused or every call failed.
NothingAnswered == \A j \in 1..Len(log) : ~(log[j].ev = "call" /\ log[j].ok)

\* C14: when no instance is reachable, the pre-modification check, the
\* post-modification refresh and the prompt-submitted event each write the
\* empty payload.
C14_UnreachableIsProceed ==
    (pc = "done" /\ NothingAnswered) => stdout = <<ProceedPayload>>

\* A pre-modification check whose instances all refused or failed.
C14_Witness ==
    /\ pc = "done"
    /\ IsPreCheck
    /\ NothingAnswered
    /\ stdout = <<ProceedPayload>>
    /\ \E j \in 1..Len(log) : log[j].ev = "call"
    /\ \E j \in 1..Len(log) : log[j].ev = "connect" /\ ~log[j].ok

\* The same for the two other events, and for a check that found no socket.
C14_WitnessRefresh ==
    /\ pc = "done" /\ IsPostRefresh /\ NothingAnswered /\ stdout = <<ProceedPayload>>
    /\ \E j \in 1..Len(log) : log[j].ev = "call"

C14_WitnessPrompt ==
    /\ pc = "done" /\ hook.hook_event_name = "UserPromptSubmit"
    /\ NothingAnswered /\ stdout = <<ProceedPayload>>
    /\ \E j \in 1..Len(log) : log[j].ev = "call"

C14_WitnessNoSocket ==
    /\ pc = "done" /\ IsPreCheck /\ ~HasAny /\ stdout = <<ProceedPayload>>

IsPrompt == hook.hook_event_name = "UserPromptSubmit"

\* The selections the instances returned, in the order they were visited.
RECURSIVE LoggedSelections(_)
LoggedSelections(n) ==
    IF n = 0 THEN <<>>
    ELSE LoggedSelections(n - 1) \o
            (IF log[n].ev = "call" /\ log[n].ok /\ log[n].res.sel # None
             THEN <<log[n].res.sel[1]>> ELSE <<>>)

\* The block of each selection, written out.
ExpectedBlock(sel) ==
    IF sel = SelA
    THEN "[Selected from /w/a.rs:1-1]\n" \o Fence \o "\nfn a()\n" \o Fence
    ELSE "[Selected from /w/b.rs:2-3]\n" \o Fence \o "\nx\ny\n" \o Fence

\* The blocks of sels in order, a blank line between two neighbours.
RECURSIVE ExpectedContext(_)
ExpectedContext(sels) ==
    IF Len(sels) = 1 THEN ExpectedBlock(sels[1])
    ELSE ExpectedContext(SubSeq(sels, 1, Len(sels) - 1))
            \o "\n\n" \o ExpectedBlock(sels[Len(sels)])

\* C15: a submitted prompt writes the empty payload when no reachable
\* instance returned a selection; otherwise the additional context holds one
\* block per returned selection, header and fenced content, in visiting
\* order, with exactly one blank line between blocks.
C15_ContextIsBlocksInOrder ==
    (pc = "done" /\ IsPrompt) =>
        LET sels == LoggedSelections(Len(log))
        IN  IF sels = <<>>
            THEN stdout = <<ProceedPayload>>
            ELSE stdout =
                    <<{<<"hookSpecificOutput",
                         {<<"hookEventName", "UserPromptSubmit">>,
                          <<"additionalContext", ExpectedContext(sels)>>}>>}>>

\* Two selections from two instances around one that has none selected.
C15_Witness ==
    /\ pc = "done"
    /\ IsPrompt
    /\ LoggedSelections(Len(log)) = <<SelB, SelA>>
    /\ \E j \in 1..Len(log) :
          log[j].ev = "call" /\ log[j].ok /\ log[j].res.sel = None
    /\ Len(stdout) = 1

\* A prompt whose instances answered without a selection.
C15_WitnessNoSelection ==
    /\ pc = "done" /\ IsPrompt /\ stdout = <<ProceedPayload>>
    /\ \E j \in 1..Len(log) : log[j].ev = "call" /\ log[j].ok

\* C16: once the event is parsed and discovery has succeeded, the handling
\* ends with exactly one payload written, whatever instances refuse the
\* connection, time out or fail the call; never is more than one written.
C16_EndsWithOnePayload ==
    /\ [](Len(stdout) = IF pc = "done" THEN 1 ELSE 0)
    /\ (pc = "dispatch") ~> (pc = "done")

\* A payload was written after every instance refused or failed, with an
\* Action method having returned its error.
C16_Witness ==
    /\ pc = "done"
    /\ Len(stdout) = 1
    /\ NothingAnswered
    /\ \E i \in 1..Len(returns) : returns[i].result = "Err"
    /\ \E j \in 1..Len(log) : log[j].ev = "call"
    /\ \E j \in 1..Len(log) : log[j].ev = "connect" /\ ~log[j].ok

\* C17: when the working directory is unavailable or cannot be
\* canonicalized, the invocation aborts with an error: no instance is
\* contacted and no payload is written.
C17_NoCwdAborts ==
    ~cwd_ok =>
        /\ pc \in {"get_editor_actions", "error"}
        /\ log = <<>>
        /\ stdout = <<>>

\* The invocation aborted although a reachable instance was running.
C17_Witness ==
    /\ pc = "error"
    /\ ~cwd_ok
    /\ \E k \in Kinds : Reachable(k) # {}
    /\ log = <<>>
    /\ stdout = <<>>

\* Some call of the fan-out that returned r completed.
SomeCallSucceeded(r) ==
    \E j \in EntriesOf(r) : log[j].ev = "call" /\ log[j].ok

\* C18, as stated: no fanned-out operation returns an error to its caller;
\* with every address unreachable or failing, status, refresh, notify and
\* selection all complete without one.
C18_NoAggregateError ==
    \A i \in 1..Len(returns) : returns[i].result = "Ok"

\* C18, amended: status and selection never return an error and yield no
\* signal when nothing answered; refresh and notify return an error exactly
\* when no instance completed the call, and EditorActions absorbs it: the
\* invocation goes on to its decision.
C18_CommandErrorIsAbsorbed ==
    /\ \A i \in 1..Len(returns) :
          LET r == returns[i]
          IN  /\ r.op = "buffer_status" =>
                    /\ r.result = "Ok"
                    /\ ~SomeCallSucceeded(r) => r.folded = None
              /\ r.op = "get_visual_selections" =>
                    /\ r.result = "Ok"
                    /\ ~SomeCallSucceeded(r) => r.collected = <<>>
              /\ r.op \in {"refresh_buffer", "send_message"} =>
                    (r.result = "Err" <=> ~SomeCallSucceeded(r))
    /\ returns # <<>> => pc # "error"

\* A refresh failed on every instance of one kind, its error was returned,
\* and the payload was written all the same.
C18_Witness ==
    /\ pc = "done"
    /\ stdout = <<ProceedPayload>>
    /\ \E i \in 1..Len(returns) :
          /\ returns[i].op = "refresh_buffer"
          /\ returns[i].result = "Err"
          /\ \E j \in EntriesOf(returns[i]) : log[j].ev = "call" /\ ~log[j].ok

(***************************************************************************)
(* Properties of the JSON-RPC client                                       *)
(***************************************************************************)

NonNull(member) == member \notin {Absent, Null}

\* C19: a response with a non-null error is a failure, also when it has a
\* result; a response with neither error nor result is a failure; a
\* response with a result and no error is a success with that result.
C19_ErrorWinsResultRequired ==
    \A i \in 1..Len(exchanged) :
        LET x == exchanged[i]
        IN  x.line.kind = "object" =>
               /\ NonNull(x.line.error) => ~x.outcome.ok
               /\ (~NonNull(x.line.error) /\ ~NonNull(x.line.result)) => ~x.outcome.ok
               /\ (~NonNull(x.line.error) /\ NonNull(x.line.result)) =>
                      x.outcome = RpcOk(x.line.result)

\* A response with both an error and a result came in and was a failure.
C19_Witness ==
    /\ exchanged # <<>>
    /\ exchanged[1].line.kind = "object"
    /\ NonNull(exchanged[1].line.error)
    /\ NonNull(exchanged[1].line.result)
    /\ ~exchanged[1].outcome.ok

RequestId(request) == (CHOOSE member \in request : member[1] = "id")[2]

\* C20: every request written carries an id drawn from the one counter;
\* the ids strictly increase in the order they are drawn, and no two
\* requests carry the same id, whichever threads sent them.
C20_IdsUniqueIncreasing ==
    /\ \A i, j \in 1..Len(drawn) : i < j => drawn[i] < drawn[j]
    /\ \A i \in 1..Len(sent) : RequestId(sent[i]) \in Range(drawn)
    /\ \A i, j \in 1..Len(sent) : i # j => RequestId(sent[i]) # RequestId(sent[j])

\* Two threads were inside send_request at once: the one that drew later
\* wrote first.
C20_Witness ==
    /\ Len(sent) = 2
    /\ RequestId(sent[1]) > RequestId(sent[2])
    /\ Len(drawn) = MaxRequests

(***************************************************************************)
(* Addressing (utils.rs)                                                   *)
(***************************************************************************)

\* The addresses instances compute in all.
MaxSockets == 4

\* Working directories as the process names them: /link is a symbolic link
\* to /w.
Cwds == {"/w", "/link", "/x"}

\* Path::canonicalize
Canonicalize(cwd) == IF cwd = "/link" THEN "/w" ELSE cwd

\* blake3::hash(..).to_hex() of a canonical path, cut to two digits. A
\* path is the sequence of its characters.
Blake3Hex(path) == IF path = "/w" THEN <<"a", "f">> ELSE <<"0", "b">>

\* compute_cwd_hash, for a working directory that can be read.
ComputeCwdHash(cwd) == Blake3Hex(Canonicalize(cwd))

\* The process ids of the instances.
Pids == {1, 12}

\* Display for u32: the decimal digits.
RECURSIVE Decimal(_)
Decimal(n) ==
    IF n < 10 THEN <<ToString(n)>>
    ELSE Decimal(n \div 10) \o <<ToString(n % 10)>>

TmpDir == <<"/", "t", "m", "p", "/">>

SockExt == <<".", "s", "o", "c", "k">>

Dash == <<"-">>

VscodeTag == <<"-", "v", "s", "c", "o", "d", "e", "-">>

\* format!("/tmp/{}-{}.sock", hash_hex, pid)
ComputeNeovimSocketPath(cwd, pid) ==
    TmpDir \o ComputeCwdHash(cwd) \o Dash \o Decimal(pid) \o SockExt

\* A VSCode address without the tag of its kind.
ComputeVscodeSocketPathUntagged(cwd, pid) ==
    TmpDir \o ComputeCwdHash(cwd) \o Dash \o Decimal(pid) \o SockExt

\* format!("/tmp/{}-vscode-{}.sock", hash_hex, pid)
ComputeVscodeSocketPath(cwd, pid) ==
    TmpDir \o ComputeCwdHash(cwd) \o VscodeTag \o Decimal(pid) \o SockExt

ComputeSocketPath(cwd, kind, pid) ==
    IF kind = "neovim" THEN ComputeNeovimSocketPath(cwd, pid)
    ELSE ComputeVscodeSocketPath(cwd, pid)

\* str::contains
Contains(str, pat) ==
    \E i \in 1..(Len(str) - Len(pat) + 1) : SubSeq(str, i, i + Len(pat) - 1) = pat

\* Path::file_name: what follows the last separator.
FileName(path) ==
    LET seps == {i \in 1..Len(path) : path[i] = "/"}
        last == CHOOSE i \in seps : \A j \in seps : j <= i
    IN  SubSeq(path, last + 1, Len(path))

\* glob, for a pattern prefix*suffix: the star stands for any characters
\* but the separator.
GlobMatches(path, prefix, suffix) ==
    /\ Len(path) >= Len(prefix) + Len(suffix)
    /\ SubSeq(path, 1, Len(prefix)) = prefix
    /\ SubSeq(path, Len(path) - Len(suffix) + 1, Len(path)) = suffix
    /\ \A i \in (Len(prefix) + 1)..(Len(path) - Len(suffix)) : path[i] # "/"

\* The pattern each discovery globs for, up to its star.
PatternPrefix(cwd, kind) ==
    TmpDir \o ComputeCwdHash(cwd) \o (IF kind = "neovim" THEN Dash ELSE VscodeTag)

\* A discovery that keeps every entry that exists.
KeepEntryOfAnyKind(kind, path, exists) == exists

\* The filter closure of find_neovim_sockets / find_vscode_sockets.
KeepEntry(kind, path, exists) ==
    /\ exists
    /\ kind = "neovim" => ~Contains(FileName(path), VscodeTag)

\* An instance starts in some working directory, computes its address and
\* binds its socket there; the socket of an earlier instance with that
\* address stays in place. The instances followed are those that start
\* before the discovery does.
CreateSocket ==
    /\ find_pc = "idle"
    /\ Cardinality(computed) < MaxSockets
    /\ \E cwd \in Cwds, kind \in Kinds, pid \in Pids :
          LET r == [cwd |-> cwd, kind |-> kind, pid |-> pid,
                    path |-> ComputeSocketPath(cwd, kind, pid)]
          IN  /\ r \notin computed
              /\ computed' = computed \cup {r}
              /\ fs' = fs \cup {r.path}
    /\ UNCHANGED <<beside_addr, find_cwd, find_kind, find_pc, find_entries,
                   find_found, find_stable, find_gone>>

\* An instance exits and its socket is removed, while the discovery runs.
RemoveSocket ==
    /\ find_pc = "filter"
    /\ \E path \in fs :
          /\ fs' = fs \ {path}
          /\ find_stable' = find_stable \ {path}
    /\ UNCHANGED <<beside_addr, computed, find_cwd, find_kind, find_pc,
                   find_entries, find_found, find_gone>>

\* find_neovim_sockets / find_vscode_sockets up to glob::glob: the
\* directory is read for the entries that match the pattern.
BeginFind ==
    /\ find_pc = "idle"
    /\ \E cwd \in Cwds, kind \in Kinds :
          /\ find_cwd' = cwd
          /\ find_kind' = kind
          /\ find_entries' =
                {path \in fs : GlobMatches(path, PatternPrefix(cwd, kind), SockExt)}
    /\ find_stable' = fs
    /\ find_pc' = "filter"
    /\ UNCHANGED <<beside_addr, fs, computed, find_found, find_gone>>

\* The iterator yields its next entry, in an order of its own, and the
\* filter looks at it.
FilterEntry ==
    /\ find_pc = "filter"
    /\ find_entries # {}
    /\ LET path == CHOOSE entry \in find_entries : TRUE
       IN /\ find_entries' = find_entries \ {path}
          /\ find_found' = IF KeepEntry(find_kind, path, path \in fs)
                           THEN Append(find_found, path)
                           ELSE find_found
          /\ find_gone' = IF path \in fs THEN find_gone ELSE find_gone \cup {path}
    /\ UNCHANGED <<beside_addr, fs, computed, find_cwd, find_kind, find_pc,
                   find_stable>>

\* collect(): the vector is returned.
EndFind ==
    /\ find_pc = "filter"
    /\ find_entries = {}
    /\ find_pc' = "done"
    /\ UNCHANGED <<beside_addr, fs, computed, find_cwd, find_kind, find_entries,
                   find_found, find_stable, find_gone>>

AddrInit == AddrIdle /\ RpcIdle /\ TrIdle /\ NvIdle /\ EdIdle /\ HandlerIdle

AddrNext ==
    \/ CreateSocket
    \/ RemoveSocket
    \/ BeginFind
    \/ FilterEntry
    \/ EndFind

AddrSpec == AddrInit /\ [][AddrNext]_vars

\* C21: the address is a function of the working directory, the kind and
\* the instance id: equal inputs (the directory named through a link or
\* not) give equal addresses, two ids of one kind give two addresses, and
\* the two kinds give two addresses for one id.
C21_AddressIsInjective ==
    \A r1, r2 \in computed :
        Canonicalize(r1.cwd) = Canonicalize(r2.cwd) =>
            /\ (r1.kind = r2.kind /\ r1.pid = r2.pid) => r1.path = r2.path
            /\ (r1.kind = r2.kind /\ r1.pid # r2.pid) => r1.path # r2.path
            /\ (r1.kind # r2.kind /\ r1.pid = r2.pid) => r1.path # r2.path

\* Addresses were computed for one id under both kinds, for the ids 1 and
\* 12 of one kind, and for one instance through the link and directly.
C21_Witness ==
    /\ \E r1, r2 \in computed : r1.cwd = r2.cwd /\ r1.pid = r2.pid /\ r1.kind # r2.kind
    /\ \E r1, r2 \in computed :
          r1.cwd = r2.cwd /\ r1.kind = r2.kind /\ r1.pid = 1 /\ r2.pid = 12
    /\ \E r1, r2 \in computed :
          r1.cwd = "/w" /\ r2.cwd = "/link" /\ r1.kind = r2.kind /\ r1.pid = r2.pid

\* C22: a discovery returns the sockets of its kind and working directory:
\* every such socket that existed all through the discovery is returned,
\* nothing of the other kind or of another directory is, and an entry that
\* was gone when the filter looked at it is left out, the discovery
\* returning all the same.
C22_DiscoveryFindsItsKind ==
    find_pc = "done" =>
        /\ \A pid \in Pids :
              ComputeSocketPath(find_cwd, find_kind, pid) \in find_stable =>
                  ComputeSocketPath(find_cwd, find_kind, pid) \in Range(find_found)
        /\ \A path \in Range(find_found) :
              /\ \E pid \in Pids : path = ComputeSocketPath(find_cwd, find_kind, pid)
              /\ path \notin find_gone

\* A Neovim discovery returned a socket, with the VSCode socket of the same
\* id and directory in place, and left out one that had vanished.
C22_Witness ==
    /\ find_pc = "done"
    /\ find_kind = "neovim"
    /\ find_found # <<>>
    /\ find_gone # {}
    /\ \E pid \in Pids :
          /\ ComputeSocketPath(find_cwd, "neovim", pid) \in Range(find_found)
          /\ ComputeSocketPath(find_cwd, "vscode", pid) \in find_stable

(***************************************************************************)
(* Properties of the fan-out over vanished and failing instances           *)
(***************************************************************************)

\* The step is a visit that failed: a refused connection or a failed call.
VisitFailed == Len(log') = Len(log) + 1 /\ ~log'[Len(log')].ok

\* The fan-out that returned r got nothing from any address.
AllVisitsFailed(r) == \A j \in EntriesOf(r) : ~log[j].ok

\* C23: the addresses are discovered in the invocation itself, nothing is
\* carried over; and an address whose instance has vanished (the connection
\* is refused, or the call fails) is skipped: no error, no signal, and the
\* fan-out goes on to the next address, so a fan-out whose instances have
\* all vanished has tried every address.
C23_VanishedIsSkipped ==
    /\ [](IF pc = "get_editor_actions"
          THEN socket_paths = [neovim |-> <<>>, vscode |-> <<>>]
          ELSE pc # "error" =>
                  socket_paths = [k \in Kinds |-> DiscoverSockets(k)])
    /\ [](\A i \in 1..Len(returns) :
             AllVisitsFailed(returns[i]) =>
                 \A a \in Range(socket_paths[returns[i].kind]) :
                     \E j \in EntriesOf(returns[i]) : log[j].addr = a)
    /\ [][VisitFailed =>
             /\ fan'.i = fan.i + 1
             /\ ~fan'.stop
             /\ fan'.acc = fan.acc /\ fan'.any = fan.any /\ fan'.out = fan.out
             /\ combined' = combined /\ selections' = selections
             /\ pc' = pc]_vars

\* A fan-out met a vanished instance and then completed the operation on a
\* later address.
C23_Witness ==
    \E i \in 1..Len(returns) :
        \E j1, j2 \in EntriesOf(returns[i]) :
            /\ log[j1].ev = "connect" /\ ~log[j1].ok
            /\ log[j2].ev = "call" /\ log[j2].ok
            /\ log[j1].addr < log[j2].addr

\* Entries j and j + 1 of the log belong to one fan-out.
SameFanOut(j) == log[j].kind = log[j + 1].kind /\ log[j].op = log[j + 1].op

\* The visit of an address is over: its connection was refused or the
\* operation on it returned.
VisitOver(e) == e.ev = "call" \/ ~e.ok

\* C24: a fan-out visits the addresses one at a time in discovery order: a
\* connection is opened only when the visit of the address before it is
\* over, the operation runs on the connection just opened, and after a call
\* that failed or timed out the next address is visited.
C24_OneAtATimeInOrder ==
    /\ \A j \in 1..Len(log) :
          IF j > 1 /\ SameFanOut(j - 1)
          THEN IF log[j].ev = "connect"
               THEN VisitOver(log[j - 1]) /\ log[j].addr = log[j - 1].addr + 1
               ELSE /\ log[j - 1].ev = "connect" /\ log[j - 1].ok
                    /\ log[j].addr = log[j - 1].addr
          ELSE log[j].ev = "connect" /\ log[j].addr = socket_paths[log[j].kind][1]
    /\ \A i \in 1..Len(returns) :
          \A j \in EntriesOf(returns[i]) :
              (log[j].ev = "call" /\ ~log[j].ok
                   /\ log[j].addr < Len(socket_paths[log[j].kind])) =>
                  /\ j < Len(log)
                  /\ log[j + 1].ev = "connect" /\ log[j + 1].addr = log[j].addr + 1

\* A call failed on the first address and the operation then ran on the
\* second.
C24_Witness ==
    \E j \in 1..Len(log) :
        /\ log[j].ev = "call" /\ ~log[j].ok /\ log[j].addr = 1
        /\ j + 2 <= Len(log)
        /\ log[j + 2].ev = "call" /\ log[j + 2].addr = 2

\* Entries j1 and j2 of the log are about one address.
SameAddress(j1, j2) == log[j1].kind = log[j2].kind /\ log[j1].addr = log[j2].addr

NEOVIM_RPC_TIMEOUT == 2

VSCODE_RPC_TIMEOUT == 2

\* The remote calls one visit of a Neovim instance makes at most in this
\* model (find_buffer alone makes one per listed buffer); a visit of a
\* VSCode instance makes exactly one.
MaxCalls == 2

CallsPerVisit(kind) == IF kind = "neovim" THEN MaxCalls ELSE 1

\* How the instance behind an address behaves once the socket file is
\* there: no listener; answers; accepts and reads but never answers; accepts
\* and never reads; closes the channel at some point.
PeerBehaviours == {"refuses", "answers", "silent", "deaf", "closes"}

\* A connection on which no receive timeout was set.
ReceiveTimeoutUnset(kind) == None

\* rpc.rs connect: stream.set_read_timeout(Some(VSCODE_RPC_TIMEOUT));
\* neovim/connection.rs connect: session.set_timeout(NEOVIM_RPC_TIMEOUT).
ReceiveTimeout(kind) ==
    IF kind = "neovim" THEN <<NEOVIM_RPC_TIMEOUT>> ELSE <<VSCODE_RPC_TIMEOUT>>

\* The visit of the current address is over: the iterator moves on.
TrVisitOver(outcome) ==
    /\ tr_outcomes' = Append(tr_outcomes, outcome)
    /\ tr_i' = tr_i + 1
    /\ tr_pc' = IF tr_i < Len(tr_peers) THEN "connect" ELSE "finished"
    /\ tr_timeout' = None
    /\ tr_waited' = 0
    /\ tr_calls' = 0

\* UnixStream::connect / Session::new_unix_socket, then the timeout is set.
TrConnect ==
    /\ tr_pc = "connect"
    /\ IF tr_peers[tr_i] = "refuses"
       THEN TrVisitOver("refused")
       ELSE /\ tr_pc' = "send"
            /\ tr_timeout' = ReceiveTimeout(tr_kind)
            /\ UNCHANGED <<tr_i, tr_waited, tr_calls, tr_outcomes>>
    /\ UNCHANGED <<beside_tr, tr_kind, tr_peers>>

\* writeln! and flush: the request is a line far shorter than the socket's
\* buffer, so the write returns whether or not the instance reads; on a
\* channel the instance has closed it fails.
TrSend ==
    /\ tr_pc = "send"
    /\ \/ /\ tr_pc' = "receive"
          /\ UNCHANGED <<tr_i, tr_timeout, tr_waited, tr_calls, tr_outcomes>>
       \/ /\ tr_peers[tr_i] = "closes"
          /\ TrVisitOver("send_failed")
    /\ UNCHANGED <<beside_tr, tr_kind, tr_peers>>

\* The response arrives: the call returns; the operation makes its next
\* call or is over.
TrReceive ==
    /\ tr_pc = "receive"
    /\ tr_peers[tr_i] = "answers"
    /\ IF tr_calls + 1 < CallsPerVisit(tr_kind)
       THEN /\ tr_calls' = tr_calls + 1
            /\ tr_pc' = "send"
            /\ tr_waited' = 0
            /\ UNCHANGED <<tr_i, tr_timeout, tr_outcomes>>
       ELSE TrVisitOver("answered")
    /\ UNCHANGED <<beside_tr, tr_kind, tr_peers>>

\* The instance closes the channel while the response is awaited: the read
\* returns end of file.
TrReceiveEof ==
    /\ tr_pc = "receive"
    /\ tr_peers[tr_i] = "closes"
    /\ TrVisitOver("closed")
    /\ UNCHANGED <<beside_tr, tr_kind, tr_peers>>

\* A second passes with the receive still blocked.
TrWait ==
    /\ tr_pc = "receive"
    /\ tr_timeout # None
    /\ tr_waited < tr_timeout[1]
    /\ tr_waited' = tr_waited + 1
    /\ UNCHANGED <<beside_tr, tr_kind, tr_peers, tr_i, tr_pc, tr_timeout,
                   tr_calls, tr_outcomes>>

\* The receive timeout expires: the call returns an error.
TrReceiveTimesOut ==
    /\ tr_pc = "receive"
    /\ tr_timeout # None
    /\ tr_waited = tr_timeout[1]
    /\ TrVisitOver("timed_out")
    /\ UNCHANGED <<beside_tr, tr_kind, tr_peers>>

\* A fan-out over any finite list of addresses of one kind.
TrInit ==
    /\ tr_kind \in {"vscode", "neovim"}
    /\ \E n \in 0..MaxInst : tr_peers \in [1..n -> PeerBehaviours]
    /\ tr_i = 1
    /\ tr_pc = IF tr_peers = <<>> THEN "finished" ELSE "connect"
    /\ tr_timeout = None
    /\ tr_waited = 0
    /\ tr_calls = 0
    /\ tr_outcomes = <<>>
    /\ RpcIdle /\ AddrIdle /\ NvIdle /\ EdIdle /\ HandlerIdle

TrNext ==
    \/ TrConnect
    \/ TrSend
    \/ TrReceive
    \/ TrReceiveEof
    \/ TrWait
    \/ TrReceiveTimesOut

\* A system call that can return does return, and time passes.
TrSpec == TrInit /\ [][TrNext]_vars /\ WF_vars(TrNext)

\* C26: a fan-out over a finite list terminates whatever the instances do
\* (refuse, answer, never answer, never read, close at any point), no
\* connect, send or receive step lasts for ever, and no receive is blocked
\* for longer than the timeout.
C26_EveryFanOutTerminates ==
    /\ <>(tr_pc = "finished")
    /\ \A step \in {"connect", "send", "receive"} :
           (tr_pc = step) ~> (tr_pc # step)
    /\ [](tr_pc = "receive" =>
              /\ tr_timeout # None
              /\ tr_waited <= tr_timeout[1])

C26_Witness ==
    /\ tr_pc = "finished"
    /\ \E j1, j2, j3 \in 1..Len(tr_outcomes) :
           /\ tr_peers[j1] = "silent" /\ tr_outcomes[j1] = "timed_out"
           /\ tr_peers[j2] = "deaf" /\ tr_outcomes[j2] = "timed_out"
           /\ tr_peers[j3] = "closes" /\ tr_outcomes[j3] = "closed"

\* The member names of a JSON object, and the value of a member.
JsonKeys(obj) == {member[1] : member \in obj}

JsonValue(obj, key) == (CHOOSE member \in obj : member[1] = key)[2]

\* The payload is the empty object.
IsProceedPayload(payload) == payload = {}

\* The payload is a permission decision "deny" and nothing else.
IsDenyPayload(payload) ==
    /\ JsonKeys(payload) = {"hookSpecificOutput"}
    /\ LET specific == JsonValue(payload, "hookSpecificOutput")
       IN  /\ JsonKeys(specific) \subseteq
                  {"hookEventName", "permissionDecision", "permissionDecisionReason"}
           /\ {"hookEventName", "permissionDecision"} \subseteq JsonKeys(specific)
           /\ JsonValue(specific, "hookEventName") = "PreToolUse"
           /\ JsonValue(specific, "permissionDecision") = "deny"

\* The payload is additional context and nothing else.
IsContextPayload(payload) ==
    /\ JsonKeys(payload) = {"hookSpecificOutput"}
    /\ LET specific == JsonValue(payload, "hookSpecificOutput")
       IN  /\ JsonKeys(specific) = {"hookEventName", "additionalContext"}
           /\ JsonValue(specific, "hookEventName") = "UserPromptSubmit"

\* C27: what is written has the shape of its event kind: a pre-modification
\* check writes the empty object or a deny decision (never allow, ask or
\* additional context), a prompt writes the empty object or additional
\* context (never a permission decision), and everything else writes the
\* empty object.
C27_PayloadShapePerEvent ==
    \A n \in 1..Len(stdout) :
        /\ hook.hook_event_name = "PreToolUse" =>
               IsProceedPayload(stdout[n]) \/ IsDenyPayload(stdout[n])
        /\ IsPrompt =>
               IsProceedPayload(stdout[n]) \/ IsContextPayload(stdout[n])
        /\ hook.hook_event_name \notin {"PreToolUse", "UserPromptSubmit"} =>
               IsProceedPayload(stdout[n])

C27_Witness ==
    /\ IsPreCheck
    /\ Len(stdout) = 1
    /\ IsDenyPayload(stdout[1])

C27_WitnessContext ==
    /\ IsPrompt
    /\ Len(stdout) = 1
    /\ IsContextPayload(stdout[1])

(***************************************************************************)
(* get_buffer_status inside one Neovim instance whose user is at work.     *)
(***************************************************************************)

\* What the user does at most while one status is computed.
MaxUserSteps == 2

\* The instance from now on shows this (current, modified) combination.
NvShows(current, modified) ==
    /\ nv_current' = current
    /\ nv_modified' = modified
    /\ nv_exhibited' = nv_exhibited \cup {<<current, modified>>}
    /\ nv_user_steps' = nv_user_steps + 1

\* Between two remote calls the user switches to or away from the file's
\* buffer, edits it (it is the current one), or writes it.
NvUserActs ==
    /\ nv_pc # "returned"
    /\ nv_user_steps < MaxUserSteps
    /\ \/ NvShows(~nv_current, nv_modified)
       \/ nv_current /\ ~nv_modified /\ NvShows(nv_current, TRUE)
       \/ nv_modified /\ NvShows(nv_current, FALSE)
    /\ UNCHANGED <<beside_nv, nv_pc, nv_is_current, nv_status>>

\* let buffer = find_buffer(nvim, file_path)?  (list_bufs, get_name)
NvFindBuffer ==
    /\ nv_pc = "find_buffer"
    /\ nv_pc' = "get_current_buf"
    /\ UNCHANGED <<beside_nv, nv_current, nv_modified, nv_is_current, nv_status,
                   nv_exhibited, nv_user_steps>>

\* let current_buf = nvim.get_current_buf()?; is_current = buffer == current_buf
NvGetCurrentBuf ==
    /\ nv_pc = "get_current_buf"
    /\ nv_is_current' = nv_current
    /\ nv_pc' = "get_option"
    /\ UNCHANGED <<beside_nv, nv_current, nv_modified, nv_status, nv_exhibited,
                   nv_user_steps>>

\* let modified = buffer.get_option(nvim, "modified")?; Ok(BufferStatus {..})
NvGetOption ==
    /\ nv_pc = "get_option"
    /\ nv_status' = Some([is_current |-> nv_is_current,
                          has_unsaved_changes |-> nv_modified])
    /\ nv_pc' = "returned"
    /\ UNCHANGED <<beside_nv, nv_current, nv_modified, nv_is_current,
                   nv_exhibited, nv_user_steps>>

\* The file is open in the instance, in any of its four combinations, when
\* get_buffer_status is called.
NvInit ==
    /\ nv_current \in BOOLEAN
    /\ nv_modified \in BOOLEAN
    /\ nv_pc = "find_buffer"
    /\ nv_is_current = FALSE
    /\ nv_status = None
    /\ nv_exhibited = {<<nv_current, nv_modified>>}
    /\ nv_user_steps = 0
    /\ RpcIdle /\ AddrIdle /\ TrIdle /\ EdIdle /\ HandlerIdle

NvNext ==
    \/ NvUserActs
    \/ NvFindBuffer
    \/ NvGetCurrentBuf
    \/ NvGetOption

NvSpec == NvInit /\ [][NvNext]_vars

\* C28: the BufferStatus returned for one instance is a combination of
\* (is_current, has_unsaved_changes) that the instance showed at some
\* instant between the call and its return.
C28_StatusIsASnapshot ==
    nv_status # None =>
        <<nv_status[1].is_current, nv_status[1].has_unsaved_changes>> \in nv_exhibited

\* The status fold is under way.
StatusFoldRunning == FanRunning /\ fan.op = "buffer_status"

\* The visits of the running fold whose status call succeeded.
Processed == {j \in EntriesOf(fan) : log[j].ev = "call" /\ log[j].ok}

\* C29: in a status fan-out an address whose connect fails or whose status
\* call errors (the buffer is not found, the call times out) does not touch
\* the fold: the accumulator and the processed flag are what the successful
\* visits made them, a failed visit changes neither and does not stop the
\* fold, and the fold moves on to the next address.
C29_FailedVisitLeavesFoldAlone ==
    /\ [](StatusFoldRunning =>
              /\ fan.any <=> Processed # {}
              /\ fan.acc =
                    [is_current |-> \E j \in Processed : log[j].res.is_current,
                     has_unsaved_changes |->
                         \E j \in Processed : log[j].res.has_unsaved_changes])
    /\ [][StatusFoldRunning /\ VisitFailed =>
              /\ fan'.acc = fan.acc
              /\ fan'.any = fan.any
              /\ ~fan'.stop
              /\ ~fan'.client
              /\ fan'.i = fan.i + 1
              /\ fan'.op = fan.op /\ fan'.kind = fan.kind]_vars

\* A fold that had processed one address met a refused connect and then a
\* failed status call, and still holds what the first address gave it.
C29_Witness ==
    /\ StatusFoldRunning
    /\ fan.any
    /\ fan.acc = [is_current |-> TRUE, has_unsaved_changes |-> FALSE]
    /\ \E j1, j2, j3 \in EntriesOf(fan) :
           /\ j1 < j2 /\ j2 < j3
           /\ log[j1].ev = "call" /\ log[j1].ok
           /\ log[j2].ev = "connect" /\ ~log[j2].ok
           /\ log[j3].ev = "call" /\ ~log[j3].ok

\* C30: send_request accepts a response as its request's result only when
\* the response carries the id of the request just sent: a response with
\* another id, or with none, is not returned as Ok.
C30_ResponseIdIsValidated ==
    \A n \in 1..Len(exchanged) :
        (exchanged[n].line.kind = "object" /\ exchanged[n].line.id # "echo")
            => ~exchanged[n].outcome.ok

(***************************************************************************)
(* One remote operation inside one editor instance.                        *)
(***************************************************************************)

\* The buffers one instance has open at most.
MaxBufs == 2

\* The windows of the instance; "w1" is the current window.
Wins == {"w1", "w2"}

\* File paths: /link is a symbolic link to /w; a.rs and b.rs exist on disk,
\* new.rs does not exist yet.
ExistingFiles == {"/w/a.rs", "/w/b.rs"}

\* Path::canonicalize: resolves the link; fails on a file that is not there.
CanonicalizeFile(path) ==
    LET resolved == IF path = "/link/a.rs" THEN "/w/a.rs"
                    ELSE IF path = "/link/new.rs" THEN "/w/new.rs"
                    ELSE path
    IN  IF resolved \in ExistingFiles THEN Some(resolved) ELSE None

\* PathBuf::from(p).canonicalize().unwrap_or_else(|_| PathBuf::from(p))
CanonicalizeOrSelf(path) ==
    IF CanonicalizeFile(path) = None THEN path ELSE CanonicalizeFile(path)[1]

\* A buffer of the instance: its name ("" for a buffer without a file),
\* whether get_name still succeeds on it, whether it has unsaved changes,
\* whether its file changed on disk since it was read, and how often it was
\* reloaded.
Buf(name) ==
    [name |-> name, valid |-> TRUE, modified |-> FALSE, stale |-> FALSE,
     reloads |-> 0]

EdOk(value) == [ok |-> TRUE, value |-> value]

EdErr(why) == [ok |-> FALSE, value |-> why]

\* find_buffer's loop from buffer i on.
RECURSIVE FindBufferFrom(_, _, _)
FindBufferFrom(bufs, target_path, i) ==
    IF i > Len(bufs) THEN EdErr("Buffer not found for file")
    ELSE IF ~bufs[i].valid THEN EdErr("Failed to get buffer name")
    ELSE IF bufs[i].name = "" THEN FindBufferFrom(bufs, target_path, i + 1)
    ELSE IF CanonicalizeOrSelf(bufs[i].name) = target_path THEN EdOk(i)
    ELSE FindBufferFrom(bufs, target_path, i + 1)

\* A find_buffer that compares against the requested path as it was given.
FindBufferRawTarget(bufs, file_path) == FindBufferFrom(bufs, file_path, 1)

\* find_buffer: list_bufs, the target canonicalized once, then the loop.
FindBuffer(bufs, file_path) ==
    FindBufferFrom(bufs, CanonicalizeOrSelf(file_path), 1)

\* An instance with one unnamed buffer shown in both windows, in normal
\* mode, that never selected anything.
PlainInstance ==
    [bufs |-> <<Buf("")>>,
     wins |-> [w \in Wins |-> [buf |-> 1, cursor |-> 1, closes |-> FALSE,
                               valid |-> TRUE]],
     autoread |-> TRUE,
     disk_lines |-> 2,
     mode |-> "n",
     pos |-> [v |-> 0, dot |-> 1, lt |-> 0, gt |-> 0],
     scripts |-> 0,
     redraws |-> 0]

\* Instances on which find_buffer is asked for a file.
FindBufferInstances ==
    {[PlainInstance EXCEPT !.bufs = bufs] :
        bufs \in UNION {[1..n -> {[Buf(name) EXCEPT !.valid = valid] :
                                      name \in {"", "/w/a.rs", "/link/a.rs",
                                                "/w/b.rs", "/link/new.rs"},
                                      valid \in BOOLEAN}] : n \in 0..MaxBufs}}

\* Instances on which a file is refreshed: they have the file's buffer, a
\* buffer of another file, or both in either order; a buffer may have
\* unsaved changes and may be behind its file on disk; every window shows
\* some buffer.
RefreshInstances ==
    UNION {{[PlainInstance EXCEPT !.bufs = bufs, !.wins = wins,
                                  !.autoread = autoread, !.disk_lines = lines] :
               bufs \in {[i \in DOMAIN names |->
                             [Buf(names[i]) EXCEPT !.modified = flags[i][1],
                                                   !.stale = flags[i][2]]] :
                            flags \in [DOMAIN names -> BOOLEAN \X BOOLEAN]},
               wins \in [Wins -> [buf : DOMAIN names, cursor : {1, 2},
                                  closes : BOOLEAN, valid : {TRUE}]],
               autoread \in BOOLEAN,
               lines \in {1, 2}} :
           names \in {<<"/w/a.rs">>, <<"/w/b.rs">>, <<"/w/a.rs", "/w/b.rs">>,
                      <<"/w/b.rs", "/w/a.rs">>}}

\* A buffer is read again from disk: it is no longer behind its file, and
\* every window displaying it has its cursor put on the first line.
Reload(inst, b) ==
    [inst EXCEPT !.bufs[b].reloads = @ + 1,
                 !.bufs[b].stale = FALSE,
                 !.bufs[b].modified = FALSE,
                 !.wins = [w \in Wins |->
                              IF inst.wins[w].buf = b
                              THEN [inst.wins[w] EXCEPT !.cursor = 1]
                              ELSE inst.wins[w]]]

\* vim.cmd('checktime'): without an argument every buffer is checked; one
\* that is behind its file and has no unsaved changes is reloaded when
\* 'autoread' is set (otherwise the user is warned).
RECURSIVE Checktime(_, _)
Checktime(inst, i) ==
    IF i > Len(inst.bufs) THEN inst
    ELSE Checktime(IF /\ inst.bufs[i].stale
                         /\ ~inst.bufs[i].modified
                         /\ inst.autoread
                      THEN Reload(inst, i)
                      ELSE inst,
                   i + 1)

\* vim.cmd('edit') in the buffer: E37 when it has unsaved changes;
\* otherwise the buffer is reloaded, and the autocommands of the reload may
\* close a window.
Edit(inst, b) ==
    IF inst.bufs[b].modified THEN EdErr("E37")
    ELSE LET reloaded == Reload(inst, b)
         IN  EdOk([reloaded EXCEPT !.wins =
                      [w \in Wins |->
                          IF reloaded.wins[w].buf = b /\ reloaded.wins[w].closes
                          THEN [reloaded.wins[w] EXCEPT !.valid = FALSE]
                          ELSE reloaded.wins[w]]])

\* pcall(nvim_win_set_cursor, win, pos) on every recorded window that is
\* still valid: a position below the end of the reloaded buffer fails, and
\* the failure is dropped.
RestoreCursors(inst, recorded) ==
    [inst EXCEPT !.wins =
        [w \in Wins |->
            IF /\ w \in DOMAIN recorded
               /\ inst.wins[w].valid
               /\ recorded[w] <= inst.disk_lines
            THEN [inst.wins[w] EXCEPT !.cursor = recorded[w]]
            ELSE inst.wins[w]]]

\* refresh_buffer_lua(buf) run by execute_lua: what it returns and the
\* instance it leaves.
RefreshBufferLua(inst, b) ==
    LET is_current_buf == inst.wins["w1"].buf = b
        cursor_positions ==
            [w \in {x \in Wins : inst.wins[x].valid /\ inst.wins[x].buf = b} |->
                inst.wins[w].cursor]
        run == [inst EXCEPT !.scripts = @ + 1]
        checked == Checktime(run, 1)
        edited == Edit(checked, b)
    IN  IF ~edited.ok
        THEN [reply |-> EdErr("Failed to reload buffer"), instance |-> checked]
        ELSE LET restored == RestoreCursors(edited.value, cursor_positions)
             IN  [reply |-> EdOk("unit"),
                  instance |-> IF is_current_buf
                               THEN [restored EXCEPT !.redraws = @ + 1]
                               ELSE restored]

\* A refresh that falls back to the current buffer when the file is not
\* open.
NvimRefreshBufferOrCurrent(inst, file_path) ==
    LET found == FindBuffer(inst.bufs, file_path)
    IN  RefreshBufferLua(inst, IF found.ok THEN found.value
                               ELSE inst.wins["w1"].buf)

\* refresh_buffer: find_buffer(..)?, get_number, execute_lua.
NvimRefreshBuffer(inst, file_path) ==
    LET found == FindBuffer(inst.bufs, file_path)
    IN  IF ~found.ok THEN [reply |-> found, instance |-> inst]
        ELSE RefreshBufferLua(inst, found.value)

\* refresh_buffer runs against the instance.
EdRefreshBuffer ==
    /\ ed_reply = None
    /\ ed_request.op = "refresh_buffer"
    /\ ed_reply' = Some(NvimRefreshBuffer(ed_instance, ed_request.file_path).reply)
    /\ ed_instance' = NvimRefreshBuffer(ed_instance, ed_request.file_path).instance
    /\ UNCHANGED <<beside_ed, ed_before, ed_request>>

\* A script that always reads the marks of the last completed selection.
GetVisualSelectionLuaMarksOnly(inst) ==
    LET start_pos == inst.pos.lt
        end_pos == inst.pos.gt
        file_path == inst.bufs[inst.wins["w1"].buf].name
    IN  IF start_pos = 0 \/ end_pos = 0 THEN None
        ELSE IF file_path = "" THEN None
        ELSE Some([file_path |-> file_path,
                   start_line |-> IF start_pos <= end_pos THEN start_pos ELSE end_pos,
                   end_line |-> IF start_pos <= end_pos THEN end_pos ELSE start_pos,
                   content |-> "text"])

\* get_visual_selection_lua: nil (None), or the payload json_encode is given. In
\* visual mode the endpoints are getpos("v") and getpos("."), otherwise
\* the marks '< and '>.
GetVisualSelectionLua(inst) ==
    LET live == inst.mode \in {"v", "V", "^V"}
        start_pos == IF live THEN inst.pos.v ELSE inst.pos.lt
        end_pos == IF live THEN inst.pos.dot ELSE inst.pos.gt
        file_path == inst.bufs[inst.wins["w1"].buf].name
    IN  IF start_pos = 0 \/ end_pos = 0 THEN None
        ELSE IF file_path = "" THEN None
        ELSE Some([file_path |-> file_path,
                   start_line |-> IF start_pos <= end_pos THEN start_pos ELSE end_pos,
                   end_line |-> IF start_pos <= end_pos THEN end_pos ELSE start_pos,
                   content |-> "text"])

\* get_visual_selection: nil is Ok(None); the JSON string is parsed into an
\* EditorContext.
GetVisualSelection(inst) ==
    LET result == GetVisualSelectionLua(inst)
    IN  IF result = None THEN EdOk(None)
        ELSE EdOk(Some([file_path |-> result[1].file_path,
                        start_line |-> result[1].start_line,
                        end_line |-> result[1].end_line,
                        content |-> result[1].content]))

\* The closure of VSCodeAction::get_visual_selections on the result of
\* client.get_visual_selection(), a null result being None: the fields
\* are copied as they came.
VscodeGetVisualSelection(result) ==
    IF result = None THEN EdOk(None)
    ELSE EdOk(Some([file_path |-> result[1].file_path,
                    start_line |-> result[1].start_line,
                    end_line |-> result[1].end_line,
                    content |-> result[1].content]))

\* get_visual_selection runs against the Neovim instance.
EdGetVisualSelection ==
    /\ ed_reply = None
    /\ ed_request.op = "get_visual_selection"
    /\ ed_reply' = Some(GetVisualSelection(ed_instance))
    /\ UNCHANGED <<beside_ed, ed_instance, ed_before, ed_request>>

\* The VSCode instance answers get_visual_selection with its result.
EdVscodeGetVisualSelection ==
    /\ ed_reply = None
    /\ ed_request.op = "vscode_get_visual_selection"
    /\ ed_reply' = Some(VscodeGetVisualSelection(ed_instance))
    /\ UNCHANGED <<beside_ed, ed_instance, ed_before, ed_request>>

\* find_buffer runs against the instance.
EdFindBuffer ==
    /\ ed_reply = None
    /\ ed_request.op = "find_buffer"
    /\ ed_reply' = Some(FindBuffer(ed_instance.bufs, ed_request.file_path))
    /\ UNCHANGED <<beside_ed, ed_instance, ed_before, ed_request>>

EdInit ==
    /\ \/ /\ ed_instance \in FindBufferInstances
          /\ ed_request \in [op : {"find_buffer"},
                             file_path : {"/w/a.rs", "/link/a.rs", "/w/new.rs"}]
       \/ /\ ed_instance \in RefreshInstances
          /\ ed_request = [op |-> "refresh_buffer", file_path |-> "/w/a.rs"]
       \/ /\ \E name \in {"", "/w/a.rs"}, mode \in {"n", "i", "v", "V"},
                pos \in [v : 1..2, dot : 1..2, lt : 0..2, gt : 0..2] :
                 ed_instance = [PlainInstance EXCEPT !.bufs = <<Buf(name)>>,
                                                     !.mode = mode,
                                                     !.pos = pos]
          /\ ed_request = [op |-> "get_visual_selection", file_path |-> ""]
       \/ /\ ed_instance \in
                 {None} \cup {Some(sel) :
                                 sel \in [file_path : {"/w/a.rs"},
                                          start_line : 0..2, end_line : 0..2,
                                          content : {"text"}]}
          /\ ed_request = [op |-> "vscode_get_visual_selection", file_path |-> ""]
    /\ ed_before = ed_instance
    /\ ed_reply = None
    /\ RpcIdle /\ AddrIdle /\ TrIdle /\ NvIdle /\ HandlerIdle

EdNext ==
    \/ EdFindBuffer
    \/ EdRefreshBuffer
    \/ EdGetVisualSelection
    \/ EdVscodeGetVisualSelection

EdSpec == EdInit /\ [][EdNext]_vars

\* The buffers that answer to the requested path: named, and with the same
\* path once both are canonicalized (a path that cannot be canonicalized is
\* taken as given).
Matching(bufs, file_path) ==
    {i \in 1..Len(bufs) :
        /\ bufs[i].name # ""
        /\ CanonicalizeOrSelf(bufs[i].name) = CanonicalizeOrSelf(file_path)}

Least(indices) == CHOOSE i \in indices : \A j \in indices : i <= j

\* The buffers up to i all gave their name.
NamesRead(bufs, i) == \A j \in 1..i : j <= Len(bufs) => bufs[j].valid

\* C31: find_buffer returns a buffer exactly when some named buffer has the
\* requested path after canonicalization, and then the first of them in
\* listing order; unnamed buffers are skipped; with no such buffer it fails
\* with "Buffer not found". (A get_name that fails before the answer is
\* known fails the resolution with that error.)
C31_FirstMatchingBuffer ==
    (ed_reply # None /\ ed_request.op = "find_buffer") =>
        LET bufs == ed_instance.bufs
            hits == Matching(bufs, ed_request.file_path)
            last == IF hits = {} THEN Len(bufs) ELSE Least(hits)
        IN  IF ~NamesRead(bufs, last)
            THEN ed_reply[1] = EdErr("Failed to get buffer name")
            ELSE IF hits = {}
            THEN ed_reply[1] = EdErr("Buffer not found for file")
            ELSE ed_reply[1] = EdOk(Least(hits))

\* The file is open twice, under its own path and through the link, behind
\* an unnamed buffer; the first of the two is returned.
C31_Witness ==
    /\ ed_request = [op |-> "find_buffer", file_path |-> "/w/a.rs"]
    /\ ed_reply = Some(EdOk(1))
    /\ Len(ed_instance.bufs) = 2
    /\ ed_instance.bufs[1].name = "/link/a.rs"
    /\ ed_instance.bufs[2].name = "/w/a.rs"

\* A refresh has returned.
Refreshed == ed_reply # None /\ ed_request.op = "refresh_buffer"

\* C32: a refresh leaves an instance that has no buffer for the file as it
\* was: no script is executed, nothing is reloaded, and the closure's
\* result is an error, which leaves the any-success flag of both
\* for_each_instance variants false.
C32_NoBufferNoEffect ==
    (Refreshed /\ Matching(ed_before.bufs, ed_request.file_path) = {}) =>
        /\ ed_instance = ed_before
        /\ ~ed_reply[1].ok
        /\ \A variant \in {"loop", "iter"} :
               ~ForEachStep(variant, FALSE, ed_reply[1].ok).any

\* The instance has a stale buffer of another file shown in its current
\* window, and the refresh left it alone.
C32_Witness ==
    /\ Refreshed
    /\ Matching(ed_before.bufs, ed_request.file_path) = {}
    /\ ed_instance.bufs[1].stale
    /\ ed_instance.autoread
    /\ ed_instance.scripts = 0

\* C33: after the refresh script ran, every window that displayed the
\* target buffer and is still valid has the cursor it had before (unless
\* that line is gone and the restore failed), windows showing other buffers
\* are as they were, no buffer but the target was reloaded, and a redraw
\* was forced exactly when the target buffer was the current one.
C33_RefreshKeepsCursorsAndScope ==
    (Refreshed /\ ed_reply[1].ok) =>
        LET target == FindBuffer(ed_before.bufs, ed_request.file_path).value
        IN  /\ \A w \in Wins :
                  (ed_before.wins[w].buf = target /\ ed_instance.wins[w].valid) =>
                      \/ ed_instance.wins[w].cursor = ed_before.wins[w].cursor
                      \/ ed_before.wins[w].cursor > ed_before.disk_lines
            /\ \A w \in Wins :
                  ed_before.wins[w].buf # target =>
                      ed_instance.wins[w] = ed_before.wins[w]
            /\ \A i \in 1..Len(ed_before.bufs) :
                  i # target => ed_instance.bufs[i] = ed_before.bufs[i]
            /\ ed_instance.redraws =
                  IF ed_before.wins["w1"].buf = target THEN 1 ELSE 0

\* C34: the selection script takes the live selection when one is in
\* progress and the marks of the last selection otherwise; it returns nil
\* when an endpoint's line is zero or the current buffer has no file, and
\* one payload with the ordered line range otherwise; nil is Ok(None) in
\* the client, never an error.
C34_SelectionOrSentinel ==
    (ed_reply # None /\ ed_request.op = "get_visual_selection") =>
        LET live == ed_instance.mode \in {"v", "V", "^V"}
            a == IF live THEN ed_instance.pos.v ELSE ed_instance.pos.lt
            b == IF live THEN ed_instance.pos.dot ELSE ed_instance.pos.gt
            name == ed_instance.bufs[1].name
        IN  /\ ed_reply[1].ok
            /\ ed_reply[1].value = None <=> (a = 0 \/ b = 0 \/ name = "")
            /\ ed_reply[1].value # None =>
                  /\ ed_reply[1].value[1].file_path = name
                  /\ {ed_reply[1].value[1].start_line,
                      ed_reply[1].value[1].end_line} = {a, b}
                  /\ ed_reply[1].value[1].start_line <= ed_reply[1].value[1].end_line

\* A selection is in progress, made upwards, while the marks of the last
\* selection are unset: the live selection is returned.
C34_Witness ==
    /\ ed_request.op = "get_visual_selection"
    /\ ed_instance.mode = "V"
    /\ ed_instance.pos = [v |-> 2, dot |-> 1, lt |-> 0, gt |-> 0]
    /\ ed_reply # None
    /\ ed_reply[1].value # None
    /\ ed_reply[1].value[1].start_line = 1
    /\ ed_reply[1].value[1].end_line = 2

\* C35: every EditorContext an instance of either kind hands to the policy
\* layer has a 1-indexed inclusive range: 1 <= start_line <= end_line.
C35_RangeIsOneIndexedOrdered ==
    (/\ ed_reply # None
     /\ ed_request.op \in {"get_visual_selection", "vscode_get_visual_selection"}
     /\ ed_reply[1].ok
     /\ ed_reply[1].value # None) =>
        /\ 1 <= ed_reply[1].value[1].start_line
        /\ ed_reply[1].value[1].start_line <= ed_reply[1].value[1].end_line

\* Some instance that is reachable and answers has unsaved changes.
UnsavedSomewhere ==
    \E k \in Kinds : \E a \in Answering(k) : world[k][a].status.has_unsaved_changes

\* The aggregated has_unsaved_changes is the OR over all instances that are
\* reachable and answer, in the run and for every order of the addresses;
\* is_current is never over-reported.  The addresses and the instances do not
\* change during an invocation, so the other orders are compared once, at
\* its end.
UnsavedIsExact ==
    StatusComputed =>
        /\ combined.has_unsaved_changes = UnsavedSomewhere
        /\ pc = "done" =>
               \A np \in Orders(socket_paths.neovim) :
                   \A vp \in Orders(socket_paths.vscode) :
                       EditorBufferStatus(np, vp).has_unsaved_changes = UnsavedSomewhere
        /\ combined.is_current =>
               \E k \in Kinds : \E a \in Answering(k) : world[k][a].status.is_current

\* C36: the early exit never changes the aggregated has_unsaved_changes:
\* at every point of every invocation it equals the OR over all reachable
\* answering instances, visited or not; only is_current can be
\* under-reported.
C36_UnsavedIsExact == []UnsavedIsExact

\* The fold stopped on an instance with unsaved changes before it reached
\* the one instance in which the file is current.
C36_Witness ==
    /\ StatusComputed
    /\ combined = [is_current |-> FALSE, has_unsaved_changes |-> TRUE]
    /\ \E k \in Kinds : \E a \in Answering(k) :
           /\ world[k][a].status.is_current
           /\ world[k][a].status.has_unsaved_changes

\* for_each_instance as a whole, from address i on, over addresses whose
\* connect is refused ("refused") or whose closure fails ("err") or
\* succeeds ("ok"): the addresses connected to, the addresses the closure
\* was called on, and the bool returned.
RECURSIVE ForEachInstance(_, _, _, _)
ForEachInstance(variant, outcomes, i, run) ==
    IF i > Len(outcomes) \/ run.stop
    THEN [visited |-> run.visited, called |-> run.called, result |-> run.any]
    ELSE IF outcomes[i] = "refused"
    THEN ForEachInstance(variant, outcomes, i + 1,
                         [run EXCEPT !.visited = Append(@, i)])
    ELSE LET s == ForEachStep(variant, run.any, outcomes[i] = "ok")
         IN  ForEachInstance(variant, outcomes, i + 1,
                             [any |-> s.any, stop |-> s.stop,
                              visited |-> Append(run.visited, i),
                              called |-> Append(run.called, i)])

\* C37: on the same address list with the same connect and operation
\* outcomes, the loop-based and the iterator-based for_each_instance connect
\* to the same addresses in the same order, call the operation on the same
\* addresses and return the same bool.
C37_LoopAndIteratorAgree ==
    \A outcomes \in [1..Len(socket_paths.neovim) -> {"refused", "err", "ok"}] :
        (\A i \in 1..Len(outcomes) :
             outcomes[i] = "refused" <=> ~world.neovim[socket_paths.neovim[i]].conn)
            => ForEachInstance("loop", outcomes, 1,
                               [any |-> FALSE, stop |-> FALSE,
                                visited |-> <<>>, called |-> <<>>])
                 = ForEachInstance("iter", outcomes, 1,
                                   [any |-> FALSE, stop |-> FALSE,
                                    visited |-> <<>>, called |-> <<>>])

\* The connects and calls made for the notification.
NotifyEntries == {j \in 1..Len(log) : log[j].op = "send_message"}

\* send_message is reached only once the aggregated status has both flags,
\* after every connect and call of the status fan-outs, and a finished
\* invocation has reached it exactly when it wrote deny.
NotifyOnlyWithDeny ==
    /\ NotifyEntries # {} => IsPreCheck /\ ShouldDeny(combined)
    /\ \A j \in NotifyEntries :
           \A b \in 1..Len(log) : log[b].op = "buffer_status" => b < j
    /\ pc = "done" => (NotifyEntries # {} <=> stdout = <<DenyPayload>>)

\* C38: the notification is sent only by a pre-modification check that
\* denies, and by every one that does, after the status fan-out of both
\* backends has completed; no other event sends it.
C38_NotifyOnlyWithDeny == []NotifyOnlyWithDeny

\* A denied check: both kinds were asked for the status, then both were
\* sent the notification.
C38_Witness ==
    /\ pc = "done"
    /\ stdout = <<DenyPayload>>
    /\ \A k \in Kinds :
           /\ \E j \in 1..Len(log) : log[j].op = "buffer_status" /\ log[j].kind = k
           /\ \E j \in NotifyEntries : log[j].kind = k /\ log[j].ev = "call"

\* A pre- or post-modification event for a tool that does not write a file.
NonMutatingToolEvent ==
    /\ hook.hook_event_name \in {"PreToolUse", "PostToolUse"}
    /\ hook.tool \in OtherTools

\* Such an event has started no fan-out, made no connect and issued no
\* status query, refresh or notification; what it wrote is the empty payload.
OtherToolsContactNobody ==
    NonMutatingToolEvent =>
        /\ log = <<>>
        /\ returns = <<>>
        /\ fan = IdleFan
        /\ pc \notin MethodPcs
        /\ pc = "done" => stdout = <<ProceedPayload>>

\* C39: an event for a tool that does not mutate a file (Read, Bash) emits
\* the empty payload without ever connecting to an editor instance.
C39_OtherToolsContactNobody == []OtherToolsContactNobody

\* The event was answered with the empty payload although instances of both
\* kinds were discovered and accepting connections.
C39_Witness ==
    /\ NonMutatingToolEvent
    /\ pc = "done"
    /\ stdout = <<ProceedPayload>>
    /\ HasAny
    /\ \A k \in Kinds : Reachable(k) # {}

====
